---------------------------- MODULE Spec2Model ----------------------------
(***************************************************************************)
(* Verification model of the OSI kernel plumbing of 8910DM_LVGL:           *)
(*   - the pipe            (components/kernel/src/osi_pipe.c)              *)
(*   - the byte FIFO       (components/kernel/src/osi_fifo.c)              *)
(*   - the work queue      (components/kernel/src/osi_work.c)              *)
(*   - the notification    (osi_work.c) and the event dispatcher           *)
(*                         (components/kernel/src/osi_freertos.c)          *)
(*   - the SPI flash driver (hal_spi_flash.c)                              *)
(*                                                                         *)
(* Each subsystem has its own specifications (pipe: SpecPipe, SpecStop,    *)
(* SpecAvail, SpecCb, SpecRestart, SpecWrap; FIFO: SpecFifo, SpecSearch;   *)
(* work queue: SpecWork, SpecWait, SpecOrder, SpecDelete, SpecAgain,       *)
(* SpecFinish, SpecLost, SpecWake; notification and events: SpecNotify,    *)
(* SpecCoalesce, SpecEvent, SpecQuit; flash: SpecWp, SpecInit, SpecSr,     *)
(* SpecSreg, SpecPrep, SpecCheck) over its own variables; the variables of *)
(* the other subsystems stay as Init leaves them.                          *)
(*                                                                         *)
(* Critical sections.  osiEnterCritical masks interrupts on the single     *)
(* core, so the statements between osiEnterCritical and osiExitCritical    *)
(* execute without any other thread or ISR in between: such a body is ONE  *)
(* action.  crit[t] is the interrupt mask thread t holds at the boundary   *)
(* of an action (0 or 1): it is 1 only where the code blocks or returns    *)
(* without having left the section.  The mask belongs to the context of a  *)
(* thread: while the thread is off the processor at a blocking kernel call *)
(* the other threads run, and a thread that runs inside a critical section *)
(* keeps every other thread and every ISR off the processor (CanRun).      *)
(***************************************************************************)
EXTENDS Integers, Sequences, FiniteSets, TLC

VARIABLES
    crit,       \* thread -> interrupt mask held by the thread (0 or 1)
    pipe,       \* struct osiPipe
    pth,        \* pipe threads: position and locals of the call in progress
    wrlog,      \* ghost: bytes accepted by osiPipeWrite since the last reset
    rdlog,      \* ghost: bytes returned by osiPipeRead since the last reset
    pcb,        \* ghost: the last callback the pipe invoked
    fifo,       \* osiFifo_t
    fcall,      \* ghost: the last FIFO call, its arguments and its result
    putlog,     \* ghost: bytes accepted by osiFifoPut since the last reset
    getlog,     \* ghost: bytes returned by osiFifoGet since the last reset
    wq,         \* queue -> struct osiWorkQueue
    work,       \* work item -> struct osiWork
    wth,        \* queue -> position and locals of its _wqThreadEntry thread
    wtr,        \* the thread calling osiWorkWaitFinish: position and locals; woken:
                \* (ghost) the call took finish_sema and went back to wait
    evlog,      \* ghost: the first logcap run/complete callbacks, in order,
                \* and the number of items each teardown detached
    logcap,     \* ghost: how many callbacks evlog records
    notify,     \* osiNotify_t
    mbox,       \* the event queue of the thread the notification targets
    dsp,        \* the target thread in osiEventTryWait: position and event
    trg,        \* the thread calling osiNotifyTrigger: position
    panic,      \* osiPanic was called
    trigs,      \* ghost: calls of osiNotifyTrigger
    batches,    \* ghost: calls of osiNotifyTrigger that found the status Idle
    ncb,        \* ghost: invocations of the notification callback
    pst,        \* sender thread -> position and locals of its osiEventSend
    snd,        \* ghost: the last call that sent an event, and its outcome
    cblog,      \* ghost: callbacks posted (accepted) and callbacks run
    fd,         \* halSpiFlash_t: the flash descriptor
    dev,        \* the flash device behind the controller: ID, status
                \* registers and latches
    fres,       \* ghost: the last call of the flash driver, its arguments,
                \* its result and the commands it issued
    props       \* gSpiFlashProps: the property table

pipeVars == <<pipe, pth, wrlog, rdlog, pcb>>
fifoVars == <<fifo, fcall, putlog, getlog>>
workVars == <<wq, work, wth, wtr, evlog, logcap>>
notifyVars == <<notify, mbox, dsp, trg, panic, trigs, batches, ncb, pst, snd, cblog>>
flashVars == <<fd, dev, fres, props>>
vars == <<crit, pipeVars, fifoVars, workVars, notifyVars, flashVars>>

nonPipeVars == <<fifoVars, workVars, notifyVars, flashVars>>
nonFifoVars == <<pipeVars, workVars, notifyVars, flashVars>>
nonWorkVars == <<pipeVars, fifoVars, notifyVars, flashVars>>
nonNotifyVars == <<pipeVars, fifoVars, workVars, flashVars>>
nonFlashVars == <<crit, pipeVars, fifoVars, workVars, notifyVars>>

-----------------------------------------------------------------------------
(* Bounds of the model *)

\* osiPipeCreate(size): the size of the ring buffer
PipeSize == 2
\* the largest size argument of a read or write call
MaxReq == 2
\* the most bytes written between two resets
MaxStream == 3

\* the width in bits of the unsigned counters rd and wr of the pipe, scaled
\* down from the 32 bits of the build so that the counters wrap in the model
CounterBits == 4

\* osiFifoInit(fifo, data, size): the size of the FIFO buffer
FifoSize == 3
\* the largest size argument of a FIFO call
MaxFifoReq == 4
\* the most bytes offered to osiFifoPut between two resets
MaxFifoStream == 6

\* the most calls of osiEventSend, osiEventTrySend and osiThreadCallback
MaxPost == 3

\* the work items of the ordering scenario
NItems == 4
\* the most entries of the callback log in the teardown scenario
MaxLog == 3
\* how far around every threshold of a write-protect table the offsets go
WpDelta == 1
\* osiThreadCreate(event_count): the capacity of the target thread's event queue
MboxCap == 2
\* the most calls of osiWorkEnqueue on an item that is on the queue already
MaxAgain == 2
\* the most calls of osiNotifyTrigger
MaxTrig == 3

\* bytes carry their position in the stream, modulo a value that differs
\* from the buffer size, so that a misplaced byte shows; no byte is 0, the
\* value of the buffer as calloc leaves it
ByteMod == PipeSize + 2

Min(a, b) == IF a < b THEN a ELSE b

Pat(start, n) == [i \in 1..n |-> ((start + i - 1) % ByteMod) + 1]

IsPrefix(s, t) == Len(s) <= Len(t) /\ SubSeq(t, 1, Len(s)) = s

Drop(s, n) == SubSeq(s, n + 1, Len(s))

-----------------------------------------------------------------------------
(* Threads *)

PReaders == {"rd"}
PWriters == {"wr"}
PControl == {"ctl"}
\* a second thread reading the same pipe
PReaders2 == {"rd2"}
PThreads == PReaders \cup PWriters \cup PControl \cup PReaders2

\* the work queues; the thread of a queue bears the name of the queue
Queues == {"q1", "q2"}
WClients == {"cl"}
WWaiters == {"wt"}
WThreads == Queues \cup WClients \cup WWaiters

\* the thread that triggers, the thread that posts other events, and the
\* thread the notification targets
NTriggers == {"trg"}
NPosters == {"post"}
NTargets == {"dsp"}
NThreads == NTriggers \cup NPosters \cup NTargets

\* an interrupt service routine as the caller of osiEventSend (IS_IRQ())
ISR == "isr"

\* the callers of osiEventSend, osiEventTrySend and osiThreadCallback
NSenders == NPosters \cup NTargets \cup {ISR}

Threads == PThreads \cup WThreads \cup NThreads

NULL == "NULL"

\* work items are numbered from 1; a null osiWork_t pointer
NoWork == 0

\* OSI_WAIT_FOREVER, 0, and any other timeout
Timeouts == {"zero", "finite", "forever"}

\* osiSemaphoreCreate(1, n): a binary semaphore; release saturates at 1
SemaphoreRelease(count) == 1

\* thread t is off the processor at a blocking kernel call
AtBlockingCall(t) ==
    \/ t \in PThreads /\ pth[t].pc \in {"ra_wait", "wa_wait", "wra_wait", "wwa_wait"}
    \/ t \in DOMAIN wth /\ wth[t].pc = "wait"
    \/ t \in WWaiters /\ wtr.pc = "wf_wait"
    \/ t \in NTriggers /\ trg.pc = "send_wait"
    \/ t \in DOMAIN pst /\ pst[t].pc = "send_wait"

\* thread t is suspended: what it waits for is not available
Suspended(t) ==
    \/ t \in PThreads /\ pth[t].pc \in {"ra_wait", "wra_wait"} /\ pipe.rd_avail_sema = 0
    \/ t \in PThreads /\ pth[t].pc \in {"wa_wait", "wwa_wait"} /\ pipe.wr_avail_sema = 0
    \/ t \in DOMAIN wth /\ wth[t].pc = "wait" /\ wq[t].work_sema = 0
    \/ t \in WWaiters /\ wtr.pc = "wf_wait" /\ wq[wtr.q].finish_sema = 0
    \/ t \in NTriggers /\ trg.pc = "send_wait" /\ Len(mbox) >= MboxCap
    \/ t \in DOMAIN pst /\ pst[t].pc = "send_wait" /\ Len(mbox) >= MboxCap

\* no thread other than t runs inside a critical section, and the system
\* has not stopped in osiPanic
MaskFree(t) == \A u \in Threads \ {t} : crit[u] = 0 \/ AtBlockingCall(u)

\* thread t can be on the processor
CanRun(t) == ~panic /\ MaskFree(t)

\* an interrupt can be taken: no thread runs with interrupts masked
IrqCanRun == ~panic /\ \A u \in Threads : crit[u] = 0 \/ AtBlockingCall(u)

-----------------------------------------------------------------------------
(* Pipe: osi_pipe.c *)

PIdle == [pc |-> "idle", size |-> 0, tmo |-> "zero", len |-> 0, n |-> 0,
          buf |-> <<>>, ret |-> 0, drained |-> FALSE]

\* unsigned arithmetic on the counters rd and wr, at the width of the model
CounterMod == 2 ^ CounterBits

Uint(x) == x % CounterMod

\* osiPipeCreate
PipeInit ==
    [running |-> TRUE, eof |-> FALSE, size |-> PipeSize, rd |-> 0, wr |-> 0,
     wr_avail_sema |-> 1, rd_avail_sema |-> 0, data_done |-> 0,
     rd_cb_mask |-> {}, rd_cb |-> "NULL", wr_cb_mask |-> {}, wr_cb |-> "NULL",
     data |-> [i \in 0..(PipeSize - 1) |-> 0]]

\* a wrong RingRead: the second segment is read from where the first began
RingReadNoWrap(d, size, rd, len) ==
    [i \in 1..len |-> d[Min((rd % size) + i - 1, size - 1)]]

\* memcpy out of the ring: one segment, or two when the read crosses the end
RingRead(d, size, rd, len) ==
    LET offset == rd % size
        tail == size - offset
    IN  IF tail >= len
        THEN [i \in 1..len |-> d[offset + i - 1]]
        ELSE [i \in 1..len |-> IF i <= tail THEN d[offset + i - 1]
                                            ELSE d[i - tail - 1]]

\* memcpy into the ring: one segment, or two when the write crosses the end
RingWrite(d, size, wr, buf, len) ==
    LET offset == wr % size
        tail == size - offset
    IN  IF tail >= len
        THEN [i \in DOMAIN d |->
                IF i >= offset /\ i < offset + len THEN buf[i - offset + 1]
                                                   ELSE d[i]]
        ELSE [i \in DOMAIN d |->
                IF i >= offset THEN buf[i - offset + 1]
                ELSE IF i < len - tail THEN buf[tail + i + 1]
                ELSE d[i]]

\* a wrong SetEofCS: the end of file restarts a stopped pipe
SetEofCSRestart(p) ==
    [p EXCEPT !.eof = TRUE,
              !.running = TRUE,
              !.wr_avail_sema = SemaphoreRelease(@),
              !.rd_avail_sema = SemaphoreRelease(@)]

\* osiPipeSetEof: the flag and both semaphores
SetEofCS(p) ==
    [p EXCEPT !.eof = TRUE,
              !.wr_avail_sema = SemaphoreRelease(@),
              !.rd_avail_sema = SemaphoreRelease(@)]

\* osiPipeStop
StopCS(p) ==
    [p EXCEPT !.running = FALSE,
              !.wr_avail_sema = SemaphoreRelease(@),
              !.rd_avail_sema = SemaphoreRelease(@)]

\* osiPipeReset
ResetCS(p) ==
    [p EXCEPT !.rd = 0, !.wr = 0, !.running = TRUE, !.eof = FALSE]

\* a wrong ReadCS: the running flag is not looked at
ReadCSNoStop(p, size) ==
    LET bytes == Uint(p.wr - p.rd)
        len == Min(size, bytes)
    IN  IF len = 0
        THEN [pipe |-> p, ret |-> 0, got |-> <<>>, bytes |-> bytes, leak |-> FALSE]
        ELSE [pipe |-> [p EXCEPT !.rd = Uint(@ + len)], ret |-> len,
              got |-> RingRead(p.data, p.size, p.rd, len),
              bytes |-> bytes, leak |-> FALSE]

\* the critical section of osiPipeRead.  leak: the function returns without
\* osiExitCritical (the data_done path, built with
\* CONFIG_QUEC_PROJECT_FEATURE_AUDIO).
ReadCS(p, size) ==
    LET bytes == Uint(p.wr - p.rd)
        len == Min(size, bytes)
    IN  IF ~p.running
        THEN [pipe |-> p, ret |-> -1, got |-> <<>>, bytes |-> bytes, leak |-> FALSE]
        ELSE IF p.data_done = 1 /\ bytes = 0
        THEN [pipe |-> SetEofCS(p), ret |-> -1, got |-> <<>>, bytes |-> bytes,
              leak |-> TRUE]
        ELSE IF len = 0
        THEN [pipe |-> p, ret |-> 0, got |-> <<>>, bytes |-> bytes, leak |-> FALSE]
        ELSE [pipe |-> [p EXCEPT !.rd = Uint(@ + len)], ret |-> len,
              got |-> RingRead(p.data, p.size, p.rd, len),
              bytes |-> bytes, leak |-> FALSE]

\* a wrong WriteCS: the free space is not looked at
WriteCSNoSpace(p, buf) ==
    IF ~p.running \/ p.eof
    THEN [pipe |-> p, ret |-> -1]
    ELSE [pipe |-> [p EXCEPT !.data = RingWrite(p.data, p.size, p.wr, buf, Len(buf)),
                             !.wr = Uint(@ + Len(buf))],
          ret |-> Len(buf)]

\* the critical section of osiPipeWrite
WriteCS(p, buf) ==
    LET space == p.size - Uint(p.wr - p.rd)
        len == Min(Len(buf), space)
    IN  IF ~p.running \/ p.eof
        THEN [pipe |-> p, ret |-> -1]
        ELSE IF len = 0
        THEN [pipe |-> p, ret |-> 0]
        ELSE [pipe |-> [p EXCEPT !.data = RingWrite(p.data, p.size, p.wr, buf, len),
                                 !.wr = Uint(@ + len)],
              ret |-> len]


\* the call returns value r to its caller
PReturn(r) == [PIdle EXCEPT !.ret = r]

\* osiEnterCritical .. osiExitCritical leaves the interrupt mask of the thread
\* as it was; a return inside the section leaves it set
CritAfter(t, leak) == IF leak THEN [crit EXCEPT ![t] = 1] ELSE crit

\* osiPipeRead(pipe, buf, n), n > 0, up to osiExitCritical
\* no callback of the pipe has been invoked yet
PcbNone == [seq |-> 0, ev |-> "none", by |-> "none", held |-> FALSE]

\* if (cond) { if (cb != NULL && (mask & ev)) cb(ctx, ev); } by thread t:
\* the invocation is recorded with the interrupt mask t holds; seq changes
\* with every invocation
PipeCallback(t, cb, mask, ev, cond) ==
    IF cond /\ cb # "NULL" /\ ev \in mask
    THEN [seq |-> 1 - pcb.seq, ev |-> ev, by |-> t, held |-> crit[t] = 1]
    ELSE pcb

osiPipeSetWriterCallback(t, mask, cb) ==
    /\ pth[t].pc = "idle"
    /\ CanRun(t)
    /\ pipe' = [pipe EXCEPT !.wr_cb_mask = mask, !.wr_cb = cb]
    /\ UNCHANGED <<pth, pcb, crit, wrlog, rdlog, nonPipeVars>>

osiPipeSetReaderCallback(t, mask, cb) ==
    /\ pth[t].pc = "idle"
    /\ CanRun(t)
    /\ pipe' = [pipe EXCEPT !.rd_cb_mask = mask, !.rd_cb = cb]
    /\ UNCHANGED <<pth, pcb, crit, wrlog, rdlog, nonPipeVars>>

osiPipeRead(t, n) ==
    /\ pth[t].pc = "idle"
    /\ CanRun(t)
    /\ LET r == ReadCS(pipe, n)
       IN  /\ pipe' = r.pipe
           /\ rdlog' = rdlog \o r.got
           /\ crit' = CritAfter(t, r.leak)
           /\ pth' = [pth EXCEPT ![t] =
                        IF r.ret > 0
                        THEN [PIdle EXCEPT !.pc = "read_post", !.n = r.ret,
                                           !.drained = (r.ret = r.bytes)]
                        ELSE PReturn(r.ret)]
    /\ UNCHANGED <<pcb, wrlog, nonPipeVars>>

\* a wrong osiPipeRead: the writer callback is invoked after every read
\* that returned data
ReadPostAnyRead(t) ==
    /\ pth[t].pc = "read_post"
    /\ CanRun(t)
    /\ pcb' = PipeCallback(t, pipe.wr_cb, pipe.wr_cb_mask, "TX_COMPLETE", TRUE)
    /\ pipe' = [pipe EXCEPT !.wr_avail_sema = SemaphoreRelease(@)]
    /\ pth' = [pth EXCEPT ![t] = PReturn(@.n)]
    /\ UNCHANGED <<crit, wrlog, rdlog, nonPipeVars>>

\* osiPipeRead after osiExitCritical: if (len == bytes) the writer callback,
\* then osiSemaphoreRelease(pipe->wr_avail_sema)
ReadPost(t) ==
    /\ pth[t].pc = "read_post"
    /\ CanRun(t)
    /\ pcb' = PipeCallback(t, pipe.wr_cb, pipe.wr_cb_mask, "TX_COMPLETE", pth[t].drained)
    /\ pipe' = [pipe EXCEPT !.wr_avail_sema = SemaphoreRelease(@)]
    /\ pth' = [pth EXCEPT ![t] = PReturn(@.n)]
    /\ UNCHANGED <<crit, wrlog, rdlog, nonPipeVars>>

\* a wrong osiPipeReadAll: the bytes of a read are not added to len
ReadAllAfterReadNoCount(c, r) ==
    IF r.ret < 0 THEN PReturn(-1)
    ELSE [c EXCEPT !.pc = IF r.ret > 0 THEN "ra_post" ELSE "ra_check",
                   !.size = @ - r.ret,
                   !.drained = (r.ret > 0 /\ r.ret = r.bytes)]

\* the state of osiPipeReadAll after int bytes = osiPipeRead(pipe, buf, size)
\* has left its critical section with result r; c holds size, tmo and len.
\* len += bytes and size -= bytes touch locals only and are done here.
ReadAllAfterRead(c, r) ==
    IF r.ret < 0 THEN PReturn(-1)
    ELSE [c EXCEPT !.pc = IF r.ret > 0 THEN "ra_post" ELSE "ra_check",
                   !.len = @ + r.ret, !.size = @ - r.ret,
                   !.drained = (r.ret > 0 /\ r.ret = r.bytes)]

\* osiPipeReadAll(pipe, buf, n, tmo), n > 0: from the entry to the end of the
\* critical section of the first osiPipeRead
osiPipeReadAll(t, n, tmo) ==
    /\ pth[t].pc = "idle"
    /\ CanRun(t)
    /\ LET r == ReadCS(pipe, n)
       IN  /\ pipe' = r.pipe
           /\ rdlog' = rdlog \o r.got
           /\ crit' = CritAfter(t, r.leak)
           /\ pth' = [pth EXCEPT ![t] =
                        ReadAllAfterRead([PIdle EXCEPT !.size = n, !.tmo = tmo], r)]
    /\ UNCHANGED <<pcb, wrlog, nonPipeVars>>

\* osiPipeReadAll: the next osiPipeRead(pipe, buf, size), its critical section
ReadAllRead(t) ==
    /\ pth[t].pc = "ra_read"
    /\ CanRun(t)
    /\ LET r == ReadCS(pipe, pth[t].size)
       IN  /\ pipe' = r.pipe
           /\ rdlog' = rdlog \o r.got
           /\ crit' = CritAfter(t, r.leak)
           /\ pth' = [pth EXCEPT ![t] = ReadAllAfterRead(@, r)]
    /\ UNCHANGED <<pcb, wrlog, nonPipeVars>>

\* the rest of the inner osiPipeRead: the writer callback, release wr_avail_sema
ReadAllPost(t) ==
    /\ pth[t].pc = "ra_post"
    /\ CanRun(t)
    /\ pcb' = PipeCallback(t, pipe.wr_cb, pipe.wr_cb_mask, "TX_COMPLETE", pth[t].drained)
    /\ pipe' = [pipe EXCEPT !.wr_avail_sema = SemaphoreRelease(@)]
    /\ pth' = [pth EXCEPT ![t].pc = "ra_check", ![t].drained = FALSE]
    /\ UNCHANGED <<crit, wrlog, rdlog, nonPipeVars>>

\* osiPipeReadAll: if (size == 0 || timeout == 0 || pipe->eof) break;
ReadAllCheck(t) ==
    /\ pth[t].pc = "ra_check"
    /\ CanRun(t)
    /\ LET c == pth[t]
       IN  pth' = [pth EXCEPT ![t] =
                     IF c.size = 0 \/ c.tmo = "zero" \/ pipe.eof
                     THEN PReturn(c.len)
                     ELSE [c EXCEPT !.pc = "ra_wait"]]
    /\ UNCHANGED <<pcb, crit, pipe, wrlog, rdlog, nonPipeVars>>

\* osiSemaphoreAcquire / osiSemaphoreTryAcquire(rd_avail_sema) succeeds
ReadAllAcquire(t) ==
    /\ pth[t].pc = "ra_wait"
    /\ CanRun(t)
    /\ pipe.rd_avail_sema = 1
    /\ pipe' = [pipe EXCEPT !.rd_avail_sema = 0]
    /\ pth' = [pth EXCEPT ![t].pc = "ra_read"]
    /\ UNCHANGED <<pcb, crit, wrlog, rdlog, nonPipeVars>>

\* wait < 0, or osiSemaphoreTryAcquire timed out: break, return len
ReadAllTimeout(t) ==
    /\ pth[t].pc = "ra_wait"
    /\ CanRun(t)
    /\ pth[t].tmo = "finite"
    /\ pth' = [pth EXCEPT ![t] = PReturn(@.len)]
    /\ UNCHANGED <<pcb, crit, pipe, wrlog, rdlog, nonPipeVars>>

\* osiPipeWrite(pipe, buf, n), n > 0, up to osiExitCritical
osiPipeWrite(t, n) ==
    /\ pth[t].pc = "idle"
    /\ CanRun(t)
    /\ Len(wrlog) + n <= MaxStream
    /\ LET buf == Pat(Len(wrlog), n)
           r == WriteCS(pipe, buf)
       IN  /\ pipe' = r.pipe
           /\ wrlog' = IF r.ret > 0 THEN wrlog \o SubSeq(buf, 1, r.ret) ELSE wrlog
           /\ pth' = [pth EXCEPT ![t] =
                        IF r.ret > 0 THEN [PIdle EXCEPT !.pc = "write_post", !.n = r.ret]
                        ELSE PReturn(r.ret)]
    /\ UNCHANGED <<pcb, crit, rdlog, nonPipeVars>>

\* osiPipeWrite after osiExitCritical: the reader callback, then
\* osiSemaphoreRelease(rd_avail_sema) and return len
WritePost(t) ==
    /\ pth[t].pc = "write_post"
    /\ CanRun(t)
    /\ pcb' = PipeCallback(t, pipe.rd_cb, pipe.rd_cb_mask, "RX_ARRIVED", pth[t].n > 0)
    /\ pipe' = [pipe EXCEPT !.rd_avail_sema = SemaphoreRelease(@)]
    /\ pth' = [pth EXCEPT ![t] = PReturn(@.n)]
    /\ UNCHANGED <<crit, wrlog, rdlog, nonPipeVars>>

\* osiPipeWriteAll: if (size == 0 || timeout == 0) break; on the locals c,
\* then the wait for wr_avail_sema
WriteAllCheck(c) ==
    IF c.size = 0 \/ c.tmo = "zero" THEN PReturn(c.len)
                                     ELSE [c EXCEPT !.pc = "wa_wait"]

\* the state of osiPipeWriteAll after int bytes = osiPipeWrite(pipe, buf, size)
\* has left its critical section with result r; c holds buf, size, tmo and len.
\* len += bytes, size -= bytes, buf += bytes and the test that ends the loop
\* touch locals only.
WriteAllAfterWrite(c, r) ==
    LET d == [c EXCEPT !.len = @ + r.ret, !.size = @ - r.ret,
                       !.buf = Drop(@, r.ret)]
    IN  IF r.ret < 0 THEN PReturn(-1)
        ELSE IF r.ret > 0 THEN [d EXCEPT !.pc = "wa_post"]
        ELSE WriteAllCheck(d)

\* osiPipeWriteAll(pipe, buf, n, tmo), n > 0: from the entry to the end of the
\* critical section of the first osiPipeWrite
osiPipeWriteAll(t, n, tmo) ==
    /\ pth[t].pc = "idle"
    /\ CanRun(t)
    /\ Len(wrlog) + n <= MaxStream
    /\ LET buf == Pat(Len(wrlog), n)
           r == WriteCS(pipe, buf)
       IN  /\ pipe' = r.pipe
           /\ wrlog' = IF r.ret > 0 THEN wrlog \o SubSeq(buf, 1, r.ret) ELSE wrlog
           /\ pth' = [pth EXCEPT ![t] =
                        WriteAllAfterWrite(
                            [PIdle EXCEPT !.size = n, !.tmo = tmo, !.buf = buf], r)]
    /\ UNCHANGED <<pcb, crit, rdlog, nonPipeVars>>

\* osiPipeWriteAll: the next osiPipeWrite(pipe, buf, size), its critical section
WriteAllWrite(t) ==
    /\ pth[t].pc = "wa_write"
    /\ CanRun(t)
    /\ LET r == WriteCS(pipe, pth[t].buf)
       IN  /\ pipe' = r.pipe
           /\ wrlog' = IF r.ret > 0 THEN wrlog \o SubSeq(pth[t].buf, 1, r.ret)
                                    ELSE wrlog
           /\ pth' = [pth EXCEPT ![t] = WriteAllAfterWrite(@, r)]
    /\ UNCHANGED <<pcb, crit, rdlog, nonPipeVars>>

\* the rest of the inner osiPipeWrite: the reader callback, release
\* rd_avail_sema; then the test that ends the loop of osiPipeWriteAll
WriteAllPost(t) ==
    /\ pth[t].pc = "wa_post"
    /\ CanRun(t)
    /\ pcb' = PipeCallback(t, pipe.rd_cb, pipe.rd_cb_mask, "RX_ARRIVED", TRUE)
    /\ pipe' = [pipe EXCEPT !.rd_avail_sema = SemaphoreRelease(@)]
    /\ pth' = [pth EXCEPT ![t] = WriteAllCheck(@)]
    /\ UNCHANGED <<crit, wrlog, rdlog, nonPipeVars>>

\* osiSemaphoreAcquire / osiSemaphoreTryAcquire(wr_avail_sema) succeeds
WriteAllAcquire(t) ==
    /\ pth[t].pc = "wa_wait"
    /\ CanRun(t)
    /\ pipe.wr_avail_sema = 1
    /\ pipe' = [pipe EXCEPT !.wr_avail_sema = 0]
    /\ pth' = [pth EXCEPT ![t].pc = "wa_write"]
    /\ UNCHANGED <<pcb, crit, wrlog, rdlog, nonPipeVars>>

\* wait < 0, or osiSemaphoreTryAcquire timed out: break, return len
WriteAllTimeout(t) ==
    /\ pth[t].pc = "wa_wait"
    /\ CanRun(t)
    /\ pth[t].tmo = "finite"
    /\ pth' = [pth EXCEPT ![t] = PReturn(@.len)]
    /\ UNCHANGED <<pcb, crit, pipe, wrlog, rdlog, nonPipeVars>>

\* osiPipeStop(pipe)
osiPipeStop(t) ==
    /\ pth[t].pc = "idle"
    /\ CanRun(t)
    /\ pipe.running
    /\ pipe' = StopCS(pipe)
    /\ pth' = [pth EXCEPT ![t] = PIdle]
    /\ UNCHANGED <<pcb, crit, wrlog, rdlog, nonPipeVars>>

\* osiPipeSetEof(pipe)
osiPipeSetEof(t) ==
    /\ pth[t].pc = "idle"
    /\ CanRun(t)
    /\ ~pipe.eof
    /\ pipe' = SetEofCS(pipe)
    /\ pth' = [pth EXCEPT ![t] = PIdle]
    /\ UNCHANGED <<pcb, crit, wrlog, rdlog, nonPipeVars>>

\* osiPipeReset(pipe); the ghost logs start again with the emptied pipe
osiPipeReset(t) ==
    /\ pth[t].pc = "idle"
    /\ CanRun(t)
    /\ pipe' = ResetCS(pipe)
    /\ wrlog' = <<>>
    /\ rdlog' = <<>>
    /\ pth' = [pth EXCEPT ![t] = PIdle]
    /\ UNCHANGED <<pcb, crit, nonPipeVars>>

\* osiPipeDataEnd(pipe)
osiPipeDataEnd(t) ==
    /\ pth[t].pc = "idle"
    /\ CanRun(t)
    /\ pipe.data_done = 0
    /\ pipe' = [pipe EXCEPT !.data_done = 1]
    /\ pth' = [pth EXCEPT ![t] = PIdle]
    /\ UNCHANGED <<pcb, crit, wrlog, rdlog, nonPipeVars>>

\* osiPipeReadAvail(pipe), osiPipeWriteAvail(pipe): one critical section each
osiPipeReadAvail(p) == Uint(p.wr - p.rd)

osiPipeWriteAvail(p) == p.size - Uint(p.wr - p.rd)

\* a bool returned as an int: true is 1, false is 0
PBool(b) == IF b THEN 1 ELSE 0

\* osiPipeWaitReadAvail(pipe, tmo): entry, osiElapsedTimerStart
osiPipeWaitReadAvail(t, tmo) ==
    /\ pth[t].pc = "idle"
    /\ CanRun(t)
    /\ pth' = [pth EXCEPT ![t] = [PIdle EXCEPT !.pc = "wra_run", !.tmo = tmo]]
    /\ UNCHANGED <<pcb, crit, pipe, wrlog, rdlog, nonPipeVars>>

\* osiPipeWaitReadAvail: if (!pipe->running) return false;
WaitReadRunning(t) ==
    /\ pth[t].pc = "wra_run"
    /\ CanRun(t)
    /\ pth' = [pth EXCEPT ![t] = IF ~pipe.running THEN PReturn(PBool(FALSE))
                                 ELSE [@ EXCEPT !.pc = "wra_avail"]]
    /\ UNCHANGED <<pcb, crit, pipe, wrlog, rdlog, nonPipeVars>>

\* osiPipeWaitReadAvail: if (osiPipeReadAvail(pipe) > 0) return true;
WaitReadAvail(t) ==
    /\ pth[t].pc = "wra_avail"
    /\ CanRun(t)
    /\ pth' = [pth EXCEPT ![t] = IF osiPipeReadAvail(pipe) > 0 THEN PReturn(PBool(TRUE))
                                 ELSE [@ EXCEPT !.pc = "wra_eof"]]
    /\ UNCHANGED <<pcb, crit, pipe, wrlog, rdlog, nonPipeVars>>

\* osiPipeWaitReadAvail: if (pipe->eof) return false;
WaitReadEof(t) ==
    /\ pth[t].pc = "wra_eof"
    /\ CanRun(t)
    /\ pth' = [pth EXCEPT ![t] = IF pipe.eof THEN PReturn(PBool(FALSE))
                                 ELSE [@ EXCEPT !.pc = "wra_wait"]]
    /\ UNCHANGED <<pcb, crit, pipe, wrlog, rdlog, nonPipeVars>>

\* osiSemaphoreAcquire / osiSemaphoreTryAcquire(rd_avail_sema) succeeds
WaitReadAcquire(t) ==
    /\ pth[t].pc = "wra_wait"
    /\ CanRun(t)
    /\ pipe.rd_avail_sema = 1
    /\ pipe' = [pipe EXCEPT !.rd_avail_sema = 0]
    /\ pth' = [pth EXCEPT ![t].pc = "wra_run"]
    /\ UNCHANGED <<pcb, crit, wrlog, rdlog, nonPipeVars>>

\* wait < 0, or osiSemaphoreTryAcquire timed out (with timeout 0: found no
\* count): return false
WaitReadTimeout(t) ==
    /\ pth[t].pc = "wra_wait"
    /\ CanRun(t)
    /\ \/ pth[t].tmo = "finite"
       \/ pth[t].tmo = "zero" /\ pipe.rd_avail_sema = 0
    /\ pth' = [pth EXCEPT ![t] = PReturn(PBool(FALSE))]
    /\ UNCHANGED <<pcb, crit, pipe, wrlog, rdlog, nonPipeVars>>

\* osiPipeWaitWriteAvail(pipe, tmo): entry, osiElapsedTimerStart
osiPipeWaitWriteAvail(t, tmo) ==
    /\ pth[t].pc = "idle"
    /\ CanRun(t)
    /\ pth' = [pth EXCEPT ![t] = [PIdle EXCEPT !.pc = "wwa_run", !.tmo = tmo]]
    /\ UNCHANGED <<pcb, crit, pipe, wrlog, rdlog, nonPipeVars>>

\* osiPipeWaitWriteAvail: if (!pipe->running) return false;
WaitWriteRunning(t) ==
    /\ pth[t].pc = "wwa_run"
    /\ CanRun(t)
    /\ pth' = [pth EXCEPT ![t] = IF ~pipe.running THEN PReturn(PBool(FALSE))
                                 ELSE [@ EXCEPT !.pc = "wwa_avail"]]
    /\ UNCHANGED <<pcb, crit, pipe, wrlog, rdlog, nonPipeVars>>

\* osiPipeWaitWriteAvail: if (osiPipeWriteAvail(pipe) > 0) return true; there
\* is no test of pipe->eof before the wait
WaitWriteAvail(t) ==
    /\ pth[t].pc = "wwa_avail"
    /\ CanRun(t)
    /\ pth' = [pth EXCEPT ![t] = IF osiPipeWriteAvail(pipe) > 0 THEN PReturn(PBool(TRUE))
                                 ELSE [@ EXCEPT !.pc = "wwa_wait"]]
    /\ UNCHANGED <<pcb, crit, pipe, wrlog, rdlog, nonPipeVars>>

\* osiSemaphoreAcquire / osiSemaphoreTryAcquire(wr_avail_sema) succeeds
WaitWriteAcquire(t) ==
    /\ pth[t].pc = "wwa_wait"
    /\ CanRun(t)
    /\ pipe.wr_avail_sema = 1
    /\ pipe' = [pipe EXCEPT !.wr_avail_sema = 0]
    /\ pth' = [pth EXCEPT ![t].pc = "wwa_run"]
    /\ UNCHANGED <<pcb, crit, wrlog, rdlog, nonPipeVars>>

\* wait < 0, or osiSemaphoreTryAcquire timed out (with timeout 0: found no
\* count): return false
WaitWriteTimeout(t) ==
    /\ pth[t].pc = "wwa_wait"
    /\ CanRun(t)
    /\ \/ pth[t].tmo = "finite"
       \/ pth[t].tmo = "zero" /\ pipe.wr_avail_sema = 0
    /\ pth' = [pth EXCEPT ![t] = PReturn(PBool(FALSE))]
    /\ UNCHANGED <<pcb, crit, pipe, wrlog, rdlog, nonPipeVars>>

-----------------------------------------------------------------------------
(* Byte FIFO: osi_fifo.c, osi_fifo.h *)

FifoPat(start, n) == [i \in 1..n |-> ((start + i - 1) % (FifoSize + 2)) + 1]

\* osiFifoInit(fifo, data, FifoSize) on a zeroed buffer
FifoInit ==
    [size |-> FifoSize, rd |-> 0, wr |-> 0, data |-> [i \in 0..(FifoSize - 1) |-> 0]]

\* ghost record of a FIFO call: the operation, the size asked for, the value
\* returned, the bytes copied out, and rd and the free space at the call
FCall(op, req, ret, out, rd0, space0) ==
    [op |-> op, req |-> req, ret |-> ret, out |-> out, rd0 |-> rd0, space0 |-> space0]

osiFifoBytes(f) == f.wr - f.rd

osiFifoSpace(f) == f.size - osiFifoBytes(f)

\* a wrong peekInternal: the second segment is read from offset on
peekInternalNoWrap(f, size) ==
    LET len == Min(osiFifoBytes(f), size)
    IN  [i \in 1..len |-> f.data[Min((f.rd % f.size) + i - 1, f.size - 1)]]

\* _peekInternal: the bytes copied to the caller, without moving rd
peekInternal(f, size) ==
    LET len == Min(osiFifoBytes(f), size)
        offset == f.rd % f.size
        tail == f.size - offset
    IN  IF tail >= len
        THEN [i \in 1..len |-> f.data[offset + i - 1]]
        ELSE [i \in 1..len |-> IF i <= tail THEN f.data[offset + i - 1]
                                            ELSE f.data[i - tail - 1]]

\* osiFifoPut(fifo, buf, Len(buf)), Len(buf) > 0
osiFifoPutBuf(buf) ==
    /\ Len(putlog) + Len(buf) <= MaxFifoStream
    /\ LET n == Len(buf)
           len == Min(osiFifoSpace(fifo), n)
           offset == fifo.wr % fifo.size
           tail == fifo.size - offset
           data == IF tail >= len
                   THEN [i \in DOMAIN fifo.data |->
                           IF i >= offset /\ i < offset + len
                           THEN buf[i - offset + 1] ELSE fifo.data[i]]
                   ELSE [i \in DOMAIN fifo.data |->
                           IF i >= offset THEN buf[i - offset + 1]
                           ELSE IF i < len - tail THEN buf[tail + i + 1]
                           ELSE fifo.data[i]]
       IN  /\ fifo' = [fifo EXCEPT !.data = data, !.wr = @ + len]
           /\ putlog' = putlog \o SubSeq(buf, 1, len)
           /\ fcall' = FCall("put", n, len, <<>>, fifo.rd, osiFifoSpace(fifo))
    /\ UNCHANGED <<getlog, crit, nonFifoVars>>

\* osiFifoPut(fifo, buf, n), n > 0, of the next n bytes of the numbered stream
osiFifoPut(n) == osiFifoPutBuf(FifoPat(Len(putlog), n))

\* osiFifoGet(fifo, buf, n), n > 0
osiFifoGet(n) ==
    /\ LET out == peekInternal(fifo, n)
       IN  /\ fifo' = [fifo EXCEPT !.rd = @ + Len(out)]
           /\ getlog' = getlog \o out
           /\ fcall' = FCall("get", n, Len(out), out, fifo.rd, osiFifoSpace(fifo))
    /\ UNCHANGED <<putlog, crit, nonFifoVars>>

\* osiFifoPeek(fifo, buf, n), n > 0
osiFifoPeek(n) ==
    /\ LET out == peekInternal(fifo, n)
       IN  fcall' = FCall("peek", n, Len(out), out, fifo.rd, osiFifoSpace(fifo))
    /\ UNCHANGED <<fifo, putlog, getlog, crit, nonFifoVars>>

\* osiFifoReset(fifo); the ghost logs start again with the emptied FIFO
osiFifoReset ==
    /\ fifo' = [fifo EXCEPT !.wr = 0, !.rd = 0]
    /\ putlog' = <<>>
    /\ getlog' = <<>>
    /\ fcall' = FCall("reset", 0, 0, <<>>, fifo.rd, osiFifoSpace(fifo))
    /\ UNCHANGED <<crit, nonFifoVars>>

\* a wrong scan: the pointer p is not taken back to the start of the buffer
RECURSIVE searchScanNoWrap(_, _, _, _)
searchScanNoWrap(f, byte, n, o) ==
    IF n >= f.wr THEN -1
    ELSE IF f.data[Min(o, f.size - 1)] = byte THEN n
    ELSE searchScanNoWrap(f, byte, n + 1, o + 1)

\* the loop of osiFifoSearch: n is the stream position examined, o the offset
\* of the pointer p in the buffer; the position of the match, or -1
RECURSIVE searchScan(_, _, _, _)
searchScan(f, byte, n, o) ==
    IF n >= f.wr THEN -1
    ELSE IF f.data[o] = byte THEN n
    ELSE searchScan(f, byte, n + 1, IF o + 1 = f.size THEN 0 ELSE o + 1)

\* osiFifoSearch(fifo, byte, keep)
osiFifoSearch(byte, keep) ==
    /\ LET n == searchScan(fifo, byte, fifo.rd, fifo.rd % fifo.size)
           rd == IF n < 0 THEN fifo.wr ELSE IF keep THEN n ELSE n + 1
       IN  /\ fifo' = [fifo EXCEPT !.rd = rd]
           /\ fcall' = [op |-> "search", req |-> byte, ret |-> (n >= 0),
                        out |-> <<>>, rd0 |-> fifo.rd,
                        space0 |-> osiFifoSpace(fifo), keep |-> keep]
    /\ UNCHANGED <<putlog, getlog, crit, nonFifoVars>>

-----------------------------------------------------------------------------
(* Work queue: osi_work.c *)

\* osiWorkQueueCreate: running, work_sema (1, 1), finish_sema (1, 0), an
\* empty list; alive until _wqThreadEntry frees the queue
WqInit ==
    [running |-> TRUE, work_sema |-> 1, finish_sema |-> 0, work_list |-> <<>>,
     alive |-> TRUE]

\* osiWorkCreate: wq = NULL; alive until osiWorkDelete frees the item
WorkInit == [wq |-> NULL, alive |-> TRUE]

\* _wqThreadEntry at while (wq->running), no item in hand
WthInit == [pc |-> "loop", work |-> NoWork]

WtrIdle ==
    [pc |-> "idle", work |-> NoWork, q |-> NULL, tmo |-> "zero", ret |-> "none",
     woken |-> FALSE]

\* TAILQ_REMOVE
TailqRemove(list, w) == SelectSeq(list, LAMBDA x : x # w)

\* TAILQ_REMOVE(&work->wq->work_list, work, iter) if the item is queued
Unlink(Q, W, w) ==
    IF W[w].wq # NULL THEN [Q EXCEPT ![W[w].wq].work_list = TailqRemove(@, w)]
                      ELSE Q

\* a wrong InsertTail: the item is appended and work_sema is not released
InsertTailNoRelease(Q, w, q) ==
    [Q EXCEPT ![q].work_list = Append(@, w)]

\* TAILQ_INSERT_TAIL(&wq->work_list, work, iter); osiSemaphoreRelease(work_sema)
InsertTail(Q, w, q) ==
    [Q EXCEPT ![q].work_list = Append(@, w),
              ![q].work_sema = SemaphoreRelease(@)]

\* a wrong EnqueueCS: an item that is on the queue already is appended again
EnqueueCSAgain(Q, W, w, q) ==
    [wq |-> InsertTail(Unlink(Q, W, w), w, q),
     work |-> [W EXCEPT ![w].wq = q]]

\* a wrong EnqueueCS: the item is not taken off the list it is on
EnqueueCSNoRemove(Q, W, w, q) ==
    IF W[w].wq = q THEN [wq |-> Q, work |-> W]
    ELSE [wq |-> InsertTail(Q, w, q), work |-> [W EXCEPT ![w].wq = q]]

\* the critical section of osiWorkEnqueue
EnqueueCS(Q, W, w, q) ==
    IF W[w].wq = q THEN [wq |-> Q, work |-> W]
    ELSE [wq |-> InsertTail(Unlink(Q, W, w), w, q),
          work |-> [W EXCEPT ![w].wq = q]]

\* a wrong EnqueueLastCS: an item already on the queue is left where it is
EnqueueLastCSKeep(Q, W, w, q) ==
    IF W[w].wq = q THEN [wq |-> Q, work |-> W]
    ELSE [wq |-> InsertTail(Unlink(Q, W, w), w, q),
          work |-> [W EXCEPT ![w].wq = q]]

\* the critical section of osiWorkEnqueueLast
EnqueueLastCS(Q, W, w, q) ==
    [wq |-> InsertTail(Unlink(Q, W, w), w, q),
     work |-> [W EXCEPT ![w].wq = q]]

\* the critical section of osiWorkCancel
CancelCS(Q, W, w) ==
    [wq |-> Unlink(Q, W, w), work |-> [W EXCEPT ![w].wq = NULL]]

\* the critical section of osiWorkDelete
DeleteCS(Q, W, w) ==
    [wq |-> Unlink(Q, W, w), work |-> [W EXCEPT ![w].wq = NULL, ![w].alive = FALSE]]

\* a wrong TakeCS: the worker takes the last item of the list
TakeCSLast(Q, W, q) ==
    LET list == Q[q].work_list
        first == IF list = <<>> THEN NoWork ELSE list[Len(list)]
    IN  IF first = NoWork
        THEN [wq |-> Q, work |-> W, taken |-> NoWork]
        ELSE [wq |-> [Q EXCEPT ![q].work_list = TailqRemove(@, first)],
              work |-> [W EXCEPT ![first].wq = NULL],
              taken |-> first]

\* the critical section of the loop of _wqThreadEntry: TAILQ_FIRST, and if
\* there is an item, TAILQ_REMOVE and work->wq = NULL
TakeCS(Q, W, q) ==
    LET list == Q[q].work_list
        first == IF list = <<>> THEN NoWork ELSE Head(list)
    IN  IF first = NoWork
        THEN [wq |-> Q, work |-> W, taken |-> NoWork]
        ELSE [wq |-> [Q EXCEPT ![q].work_list = TailqRemove(@, first)],
              work |-> [W EXCEPT ![first].wq = NULL],
              taken |-> first]

\* the callback log keeps the first logcap callbacks
LogAppend(e) == IF Len(evlog) < logcap THEN Append(evlog, e) ELSE evlog

\* osiWorkEnqueue(work, wq) on an item and a queue that are in use
osiWorkEnqueue(t, w, q) ==
    /\ CanRun(t)
    /\ work[w].alive /\ wq[q].running
    /\ LET r == EnqueueCS(wq, work, w, q)
       IN  wq' = r.wq /\ work' = r.work
    /\ UNCHANGED <<wth, wtr, evlog, logcap, crit, nonWorkVars>>

\* osiWorkEnqueueLast(work, wq)
osiWorkEnqueueLast(t, w, q) ==
    /\ CanRun(t)
    /\ work[w].alive /\ wq[q].running
    /\ LET r == EnqueueLastCS(wq, work, w, q)
       IN  wq' = r.wq /\ work' = r.work
    /\ UNCHANGED <<wth, wtr, evlog, logcap, crit, nonWorkVars>>

\* osiWorkCancel(work)
osiWorkCancel(t, w) ==
    /\ CanRun(t)
    /\ work[w].alive
    /\ LET r == CancelCS(wq, work, w)
       IN  wq' = r.wq /\ work' = r.work
    /\ UNCHANGED <<wth, wtr, evlog, logcap, crit, nonWorkVars>>

\* osiWorkDelete(work), on an item nobody waits for
osiWorkDelete(t, w) ==
    /\ CanRun(t)
    /\ work[w].alive
    /\ ~(wtr.pc = "wf_wait" /\ wtr.work = w)
    /\ LET r == DeleteCS(wq, work, w)
       IN  wq' = r.wq /\ work' = r.work
    /\ UNCHANGED <<wth, wtr, evlog, logcap, crit, nonWorkVars>>

\* osiWorkQueueDelete(wq), on a queue nobody waits on
osiWorkQueueDelete(t, q) ==
    /\ CanRun(t)
    /\ wq[q].running
    /\ ~(wtr.pc = "wf_wait" /\ (wtr.q = q \/ work[wtr.work].wq = q))
    /\ wq' = [wq EXCEPT ![q].running = FALSE,
                        ![q].work_sema = SemaphoreRelease(@)]
    /\ UNCHANGED <<work, wth, wtr, evlog, logcap, crit, nonWorkVars>>

\* _wqThreadEntry: while (wq->running)
WorkerLoop(q) ==
    /\ wth[q].pc = "loop"
    /\ CanRun(q)
    /\ wth' = [wth EXCEPT ![q].pc = IF wq[q].running THEN "take" ELSE "teardown"]
    /\ UNCHANGED <<wq, work, wtr, evlog, logcap, crit, nonWorkVars>>

\* _wqThreadEntry: the critical section that takes the first item
WorkerTake(q) ==
    /\ wth[q].pc = "take"
    /\ CanRun(q)
    /\ LET r == TakeCS(wq, work, q)
       IN  /\ wq' = r.wq
           /\ work' = r.work
           /\ wth' = [wth EXCEPT ![q] =
                        IF r.taken = NoWork THEN [pc |-> "wait", work |-> NoWork]
                                          ELSE [pc |-> "run", work |-> r.taken]]
    /\ UNCHANGED <<wtr, evlog, logcap, crit, nonWorkVars>>

\* _wqThreadEntry: osiSemaphoreAcquire(wq->work_sema) returns
WorkerWait(q) ==
    /\ wth[q].pc = "wait"
    /\ CanRun(q)
    /\ wq[q].work_sema = 1
    /\ wq' = [wq EXCEPT ![q].work_sema = 0]
    /\ wth' = [wth EXCEPT ![q].pc = "loop"]
    /\ UNCHANGED <<work, wtr, evlog, logcap, crit, nonWorkVars>>

\* _wqThreadEntry: run(ctx)
WorkerRun(q) ==
    /\ wth[q].pc = "run"
    /\ CanRun(q)
    /\ evlog' = LogAppend(<<"run", wth[q].work>>)
    /\ wth' = [wth EXCEPT ![q].pc = "complete"]
    /\ UNCHANGED <<wq, work, wtr, logcap, crit, nonWorkVars>>

\* _wqThreadEntry: complete(ctx)
WorkerComplete(q) ==
    /\ wth[q].pc = "complete"
    /\ CanRun(q)
    /\ evlog' = LogAppend(<<"complete", wth[q].work>>)
    /\ wth' = [wth EXCEPT ![q].pc = "release"]
    /\ UNCHANGED <<wq, work, wtr, logcap, crit, nonWorkVars>>

\* _wqThreadEntry: osiSemaphoreRelease(wq->finish_sema)
WorkerRelease(q) ==
    /\ wth[q].pc = "release"
    /\ CanRun(q)
    /\ wq' = [wq EXCEPT ![q].finish_sema = SemaphoreRelease(@)]
    /\ wth' = [wth EXCEPT ![q] = WthInit]
    /\ UNCHANGED <<work, wtr, evlog, logcap, crit, nonWorkVars>>

\* a wrong teardown: only the first item of the list is detached
WorkerTeardownFirst(q) ==
    /\ wth[q].pc = "teardown"
    /\ CanRun(q)
    /\ LET r == TakeCS(wq, work, q)
       IN  wq' = r.wq /\ work' = r.work
    /\ evlog' = LogAppend(<<"detach", Len(wq[q].work_list)>>)
    /\ wth' = [wth EXCEPT ![q].pc = "free"]
    /\ UNCHANGED <<wtr, logcap, crit, nonWorkVars>>

\* _wqThreadEntry after the loop: the critical section that empties the list
WorkerTeardown(q) ==
    /\ wth[q].pc = "teardown"
    /\ CanRun(q)
    /\ work' = [w \in DOMAIN work |->
                  IF work[w].wq = q THEN [work[w] EXCEPT !.wq = NULL] ELSE work[w]]
    /\ wq' = [wq EXCEPT ![q].work_list = <<>>]
    /\ evlog' = LogAppend(<<"detach", Len(wq[q].work_list)>>)
    /\ wth' = [wth EXCEPT ![q].pc = "free"]
    /\ UNCHANGED <<wtr, logcap, crit, nonWorkVars>>

\* _wqThreadEntry: osiSemaphoreDelete twice, free(wq), osiThreadExit
WorkerFree(q) ==
    /\ wth[q].pc = "free"
    /\ CanRun(q)
    /\ wq' = [wq EXCEPT ![q].alive = FALSE]
    /\ wth' = [wth EXCEPT ![q].pc = "exited"]
    /\ UNCHANGED <<work, wtr, evlog, logcap, crit, nonWorkVars>>

\* a wrong loop: the call returns true without looking at work->wq
WaitFinishLoopNoCheck(W, w, tmo) == [done |-> "true", q |-> NULL]

\* the for (;;) of osiWorkWaitFinish from its top, inside the critical
\* section: done is the value returned, or "wait" when the thread goes on to
\* acquire the finish_sema of queue q
WaitFinishLoop(W, w, tmo) ==
    IF W[w].wq = NULL THEN [done |-> "true", q |-> NULL]
    ELSE IF tmo = "zero" THEN [done |-> "false", q |-> NULL]
    ELSE [done |-> "wait", q |-> W[w].wq]

\* osiWorkWaitFinish(work, tmo): osiEnterCritical, then the loop until the
\* call returns or blocks in osiSemaphoreAcquire / osiSemaphoreTryAcquire.
\* A count of 1 is taken and the loop comes back to the same semaphore.
osiWorkWaitFinish(t, w, tmo) ==
    /\ wtr.pc = "idle"
    /\ CanRun(t)
    /\ work[w].alive
    /\ work[w].wq # NULL => wq[work[w].wq].running
    /\ LET r == WaitFinishLoop(work, w, tmo)
       IN  IF r.done = "wait"
           THEN /\ wq' = [wq EXCEPT ![r.q].finish_sema = 0]
                /\ wtr' = [pc |-> "wf_wait", work |-> w, q |-> r.q, tmo |-> tmo,
                           ret |-> "none", woken |-> FALSE]
                /\ crit' = [crit EXCEPT ![t] = 1]
           ELSE /\ wtr' = [WtrIdle EXCEPT !.ret = r.done]
                /\ UNCHANGED <<wq, crit>>
    /\ UNCHANGED <<work, wth, evlog, logcap, nonWorkVars>>

\* osiWorkWaitFinish: the semaphore it blocks on is released, the loop goes
\* round: work->wq == NULL returns true after osiExitCritical, otherwise the
\* thread blocks again on the finish_sema of the queue the item is on now
WaitFinishWake(t) ==
    /\ wtr.pc = "wf_wait"
    /\ CanRun(t)
    /\ wq[wtr.q].finish_sema = 1
    /\ LET r == WaitFinishLoop(work, wtr.work, wtr.tmo)
           taken == [wq EXCEPT ![wtr.q].finish_sema = 0]
       IN  IF r.done = "wait"
           THEN /\ wq' = [taken EXCEPT ![r.q].finish_sema = 0]
                /\ wtr' = [wtr EXCEPT !.q = r.q, !.woken = TRUE]
                /\ UNCHANGED crit
           ELSE /\ wq' = taken
                /\ wtr' = [WtrIdle EXCEPT !.ret = r.done]
                /\ crit' = [crit EXCEPT ![t] = 0]
    /\ UNCHANGED <<work, wth, evlog, logcap, nonWorkVars>>

\* osiWorkWaitFinish: wait < 0, or osiSemaphoreTryAcquire timed out:
\* osiExitCritical, return false
WaitFinishTimeout(t) ==
    /\ wtr.pc = "wf_wait"
    /\ CanRun(t)
    /\ wtr.tmo = "finite"
    /\ wtr' = [WtrIdle EXCEPT !.ret = "false"]
    /\ crit' = [crit EXCEPT ![t] = 0]
    /\ UNCHANGED <<wq, work, wth, evlog, logcap, nonWorkVars>>

-----------------------------------------------------------------------------
(* Notification: osi_work.c; event queue and dispatch: osi_freertos.c *)

\* osiNotifyCreate: status OSI_NOTIFY_IDLE; alive until free(notify)
NotifyInit == [status |-> "Idle", alive |-> TRUE]

\* osiEvent_t: id, param1, param2
Event(id, param1, param2) == [id |-> id, param1 |-> param1, param2 |-> param2]

\* OSI_EVENT_ID_NONE
NoEvent == Event("None", 0, 0)

\* the event osiNotifyTrigger sends: OSI_EVENT_ID_NOTIFY, param1 = notify
NotifyEvent == Event("Notify", 0, 0)

\* the event osiThreadCallback sends: OSI_EVENT_ID_CALLBACK, param1 = cb,
\* param2 = cb_ctx; the calls are told apart by cb_ctx
CallbackEvent(ctx) == Event("Callback", 1, ctx)

\* an event of the application, returned to the caller of osiEventWait
UserEvent == Event("User", 0, 0)

\* the target thread outside osiEventTryWait; ev is the caller's osiEvent_t
DspIdle == [pc |-> "idle", ev |-> NoEvent]

\* a sender thread outside osiEventSend
PstIdle == [pc |-> "idle", ev |-> NoEvent, api |-> "none", tmo |-> "zero"]

\* no event was sent yet
SndInit ==
    [n |-> 0, ctx |-> "none", api |-> "none", ev |-> NoEvent, full |-> FALSE,
     waited |-> FALSE, returned |-> FALSE, ret |-> FALSE]

\* the outcome of a send that does not wait
SendResult(q, ret, panics, wait) ==
    [q |-> q, ret |-> ret, panic |-> panics, wait |-> wait]

\* a wrong osiEventSend: the current thread as target waits like any other
osiEventSendSelfWaits(ctx, q, e) ==
    IF Len(q) < MboxCap THEN SendResult(Append(q, e), TRUE, FALSE, FALSE)
    ELSE IF ctx = "isr" THEN SendResult(q, FALSE, FALSE, FALSE)
    ELSE SendResult(q, FALSE, FALSE, TRUE)

\* osiEventSend(thread, event) on the event queue q up to the point where
\* xQueueSendToBack would wait.  ctx: "isr" for IS_IRQ(), "self" when thread
\* is the current thread, "other" otherwise
osiEventSend(ctx, q, e) ==
    IF Len(q) < MboxCap THEN SendResult(Append(q, e), TRUE, FALSE, FALSE)
    ELSE IF ctx = "isr" THEN SendResult(q, FALSE, FALSE, FALSE)
    ELSE IF ctx = "self" THEN SendResult(q, FALSE, TRUE, FALSE)
    ELSE SendResult(q, FALSE, FALSE, TRUE)

\* osiEventTrySend(thread, event, timeout) up to the point where
\* xQueueSendToBack would wait
osiEventTrySend(ctx, q, e, tmo) ==
    IF Len(q) < MboxCap THEN SendResult(Append(q, e), TRUE, FALSE, FALSE)
    ELSE IF ctx = "isr" \/ tmo = "zero" THEN SendResult(q, FALSE, FALSE, FALSE)
    ELSE SendResult(q, FALSE, FALSE, TRUE)

\* the context of sender t for a send to the thread target
SendCtx(t, target) ==
    IF t = ISR THEN "isr" ELSE IF t = target THEN "self" ELSE "other"

\* sender t is on the processor and outside every other kernel call
SenderCanRun(t) ==
    IF t = ISR THEN IrqCanRun
    ELSE /\ CanRun(t)
         /\ pst[t].pc = "idle"
         /\ t \in NTargets => dsp.pc = "idle"

\* the call api of sender t sends e with outcome r: the event queue, the
\* sender and the ghost record of the call
SendCall(t, api, tmo, e, r) ==
    /\ snd.n < MaxPost
    /\ mbox' = r.q
    /\ panic' = r.panic
    /\ pst' = IF r.wait
              THEN [pst EXCEPT ![t] = [pc |-> "send_wait", ev |-> e,
                                       api |-> api, tmo |-> tmo]]
              ELSE pst
    /\ snd' = [n |-> snd.n + 1, ctx |-> SendCtx(t, "dsp"), api |-> api, ev |-> e,
               full |-> (Len(mbox) >= MboxCap), waited |-> r.wait,
               returned |-> (~r.wait /\ ~r.panic), ret |-> r.ret]
    /\ cblog' = IF e.id = "Callback" /\ r.ret
                THEN [cblog EXCEPT !.posted = Append(@, e.param2)]
                ELSE cblog
    /\ UNCHANGED <<notify, dsp, trg, trigs, batches, ncb, crit, nonNotifyVars>>

\* osiEventSend(thread, event) of an application event by sender t
EventSend(t) ==
    /\ SenderCanRun(t)
    /\ SendCall(t, "send", "forever", UserEvent,
                osiEventSend(SendCtx(t, "dsp"), mbox, UserEvent))

\* osiEventTrySend(thread, event, tmo) of an application event by sender t
EventTrySend(t, tmo) ==
    /\ SenderCanRun(t)
    /\ SendCall(t, "trysend", tmo, UserEvent,
                osiEventTrySend(SendCtx(t, "dsp"), mbox, UserEvent, tmo))

\* xQueueSendToBack of the waiting sender t finds room: the call returns true
EventSendWake(t) ==
    /\ pst[t].pc = "send_wait"
    /\ CanRun(t)
    /\ Len(mbox) < MboxCap
    /\ mbox' = Append(mbox, pst[t].ev)
    /\ pst' = [pst EXCEPT ![t] = PstIdle]
    /\ snd' = [snd EXCEPT !.ctx = SendCtx(t, "dsp"), !.api = pst[t].api,
                          !.ev = pst[t].ev, !.full = TRUE, !.waited = TRUE,
                          !.returned = TRUE, !.ret = TRUE]
    /\ cblog' = IF pst[t].ev.id = "Callback"
                THEN [cblog EXCEPT !.posted = Append(@, pst[t].ev.param2)]
                ELSE cblog
    /\ UNCHANGED <<notify, dsp, trg, panic, trigs, batches, ncb, crit, nonNotifyVars>>

\* xQueueSendToBack of the waiting sender t gives up: the timeout of
\* osiEventTrySend, or the 1000 ticks of osiEventSend built with
\* CONFIG_QUEC_PROJECT_FEATURE; the call returns false
EventSendTimeout(t) ==
    /\ pst[t].pc = "send_wait"
    /\ CanRun(t)
    /\ pst[t].api = "trysend" => pst[t].tmo = "finite"
    /\ pst' = [pst EXCEPT ![t] = PstIdle]
    /\ snd' = [snd EXCEPT !.ctx = SendCtx(t, "dsp"), !.api = pst[t].api,
                          !.ev = pst[t].ev, !.full = TRUE, !.waited = TRUE,
                          !.returned = TRUE, !.ret = FALSE]
    /\ UNCHANGED <<notify, mbox, dsp, trg, panic, trigs, batches, ncb, cblog,
                   crit, nonNotifyVars>>

\* a wrong trigger: a cancelled notification is not armed again
TriggerCSNoRearm(status) ==
    IF status = "Idle" THEN [status |-> "QueuedActive", send |-> TRUE]
    ELSE [status |-> status, send |-> FALSE]

\* the critical section of osiNotifyTrigger up to osiEventSend: the new
\* status, and whether a Notify event is sent
TriggerCS(status) ==
    IF status = "Idle" THEN [status |-> "QueuedActive", send |-> TRUE]
    ELSE IF status # "QueuedDelete" THEN [status |-> "QueuedActive", send |-> FALSE]
    ELSE [status |-> status, send |-> FALSE]

\* ghost: one more call of osiNotifyTrigger, one more batch if it found Idle
CountTrigger ==
    /\ trigs' = trigs + 1
    /\ batches' = IF notify.status = "Idle" THEN batches + 1 ELSE batches

\* osiNotifyTrigger(notify) from a thread other than the target.
\* osiEventSend blocks in xQueueSendToBack while the event queue is full,
\* inside the critical section.
osiNotifyTrigger(t) ==
    /\ trg.pc = "idle"
    /\ CanRun(t)
    /\ notify.alive
    /\ trigs < MaxTrig
    /\ LET r == TriggerCS(notify.status)
       IN  /\ notify' = [notify EXCEPT !.status = r.status]
           /\ IF ~r.send
              THEN UNCHANGED <<mbox, trg, crit>>
              ELSE IF Len(mbox) < MboxCap
              THEN mbox' = Append(mbox, NotifyEvent) /\ UNCHANGED <<trg, crit>>
              ELSE /\ trg' = [pc |-> "send_wait"]
                   /\ crit' = [crit EXCEPT ![t] = 1]
                   /\ UNCHANGED mbox
    /\ CountTrigger
    /\ UNCHANGED <<dsp, panic, ncb, pst, snd, cblog, nonNotifyVars>>

\* osiNotifyTrigger: xQueueSendToBack finds room, osiEventSend returns true,
\* osiExitCritical
TriggerSendWake(t) ==
    /\ trg.pc = "send_wait"
    /\ CanRun(t)
    /\ Len(mbox) < MboxCap
    /\ mbox' = Append(mbox, NotifyEvent)
    /\ trg' = [pc |-> "idle"]
    /\ crit' = [crit EXCEPT ![t] = 0]
    /\ UNCHANGED <<notify, dsp, panic, trigs, batches, ncb, pst, snd, cblog, nonNotifyVars>>

\* osiNotifyTrigger built with CONFIG_QUEC_PROJECT_FEATURE: xQueueSendToBack
\* gives up after 1000 ticks, osiEventSend returns false, which
\* osiNotifyTrigger does not look at; osiExitCritical
TriggerSendTimeout(t) ==
    /\ trg.pc = "send_wait"
    /\ CanRun(t)
    /\ trg' = [pc |-> "idle"]
    /\ crit' = [crit EXCEPT ![t] = 0]
    /\ UNCHANGED <<notify, mbox, dsp, panic, trigs, batches, ncb, pst, snd, cblog, nonNotifyVars>>

\* osiNotifyTrigger(notify) from an ISR: xQueueSendToBackFromISR fails when
\* the event queue is full and osiEventSend returns false
osiNotifyTriggerISR ==
    /\ ~panic
    /\ \A u \in Threads : crit[u] = 0 \/ AtBlockingCall(u)
    /\ notify.alive
    /\ trigs < MaxTrig
    /\ LET r == TriggerCS(notify.status)
       IN  /\ notify' = [notify EXCEPT !.status = r.status]
           /\ mbox' = IF r.send /\ Len(mbox) < MboxCap THEN Append(mbox, NotifyEvent)
                                                       ELSE mbox
    /\ CountTrigger
    /\ UNCHANGED <<dsp, trg, panic, ncb, pst, snd, cblog, crit, nonNotifyVars>>

\* osiNotifyTrigger(notify) from the target thread itself, between two
\* osiEventTryWait: xQueueSendToBack with no wait, osiPanic when it fails
osiNotifyTriggerSelf(t) ==
    /\ dsp.pc = "idle"
    /\ CanRun(t)
    /\ notify.alive
    /\ trigs < MaxTrig
    /\ LET r == TriggerCS(notify.status)
       IN  /\ notify' = [notify EXCEPT !.status = r.status]
           /\ mbox' = IF r.send /\ Len(mbox) < MboxCap THEN Append(mbox, NotifyEvent)
                                                       ELSE mbox
           /\ panic' = (r.send /\ Len(mbox) >= MboxCap)
    /\ CountTrigger
    /\ UNCHANGED <<dsp, trg, ncb, pst, snd, cblog, crit, nonNotifyVars>>

\* osiNotifyCancel(notify)
osiNotifyCancel(t) ==
    /\ trg.pc = "idle"
    /\ CanRun(t)
    /\ notify.alive /\ notify.status # "QueuedDelete"
    /\ notify' = [notify EXCEPT !.status =
                    IF @ = "QueuedActive" THEN "QueuedCancel" ELSE @]
    /\ UNCHANGED <<mbox, dsp, trg, panic, trigs, batches, ncb, pst, snd, cblog, crit, nonNotifyVars>>

\* osiNotifyDelete(notify), once
osiNotifyDelete(t) ==
    /\ trg.pc = "idle"
    /\ CanRun(t)
    /\ notify.alive /\ notify.status # "QueuedDelete"
    /\ notify' = IF notify.status = "Idle"
                 THEN [status |-> "Freed", alive |-> FALSE]
                 ELSE [notify EXCEPT !.status = "QueuedDelete"]
    /\ UNCHANGED <<mbox, dsp, trg, panic, trigs, batches, ncb, pst, snd, cblog, crit, nonNotifyVars>>

\* osiThreadCallback(thread, cb, cb_ctx) by sender t: osiEventTrySend with
\* timeout 0 from an ISR, osiEventSend otherwise; cb_ctx numbers the call
osiThreadCallback(t) ==
    /\ SenderCanRun(t)
    /\ LET e == CallbackEvent(snd.n + 1)
           ctx == SendCtx(t, "dsp")
       IN  SendCall(t, "callback", "forever", e,
                    IF t = ISR THEN osiEventTrySend(ctx, mbox, e, "zero")
                               ELSE osiEventSend(ctx, mbox, e))

\* a wrong osiEventTryWait: the event queued last is taken
osiEventTryWaitLast(t) ==
    /\ dsp.pc = "idle"
    /\ pst[t].pc = "idle"
    /\ CanRun(t)
    /\ mbox # <<>>
    /\ dsp' = [pc |-> "got", ev |-> mbox[Len(mbox)]]
    /\ mbox' = SubSeq(mbox, 1, Len(mbox) - 1)
    /\ UNCHANGED <<notify, trg, panic, trigs, batches, ncb, pst, snd, cblog, crit, nonNotifyVars>>

\* osiEventTryWait: xQueueReceive takes the event at the head
osiEventTryWait(t) ==
    /\ dsp.pc = "idle"
    /\ pst[t].pc = "idle"
    /\ CanRun(t)
    /\ mbox # <<>>
    /\ dsp' = [pc |-> "got", ev |-> Head(mbox)]
    /\ mbox' = Tail(mbox)
    /\ UNCHANGED <<notify, trg, panic, trigs, batches, ncb, pst, snd, cblog, crit, nonNotifyVars>>

\* osiEventTryWait: OSI_EVENT_ID_CALLBACK, cb(param2), event->id = NONE
DispatchCallback(t) ==
    /\ dsp.pc = "got" /\ dsp.ev.id = "Callback"
    /\ CanRun(t)
    /\ cblog' = [cblog EXCEPT !.ran = Append(@, [ctx |-> dsp.ev.param2, by |-> t])]
    /\ dsp' = [pc |-> "idle", ev |-> [dsp.ev EXCEPT !.id = "None"]]
    /\ UNCHANGED <<notify, mbox, trg, panic, trigs, batches, ncb, pst, snd, crit, nonNotifyVars>>

\* osiEventTryWait: an event of no kernel id is returned as received
DispatchUser(t) ==
    /\ dsp.pc = "got" /\ dsp.ev.id = "User"
    /\ CanRun(t)
    /\ dsp' = [dsp EXCEPT !.pc = "idle"]
    /\ UNCHANGED <<notify, mbox, trg, panic, trigs, batches, ncb, pst, snd, cblog, crit, nonNotifyVars>>

\* osiEventTryWait: OSI_EVENT_ID_NOTIFY, the critical section; without a
\* callback to call, event->id = NONE
DispatchNotify(t) ==
    /\ dsp.pc = "got" /\ dsp.ev.id = "Notify"
    /\ CanRun(t)
    /\ IF notify.status = "QueuedDelete"
       THEN /\ notify' = [status |-> "Freed", alive |-> FALSE]
            /\ dsp' = DspIdle
       ELSE IF notify.status = "QueuedActive"
       THEN /\ notify' = [notify EXCEPT !.status = "Idle"]
            /\ dsp' = [dsp EXCEPT !.pc = "cb"]
       ELSE /\ notify' = [notify EXCEPT !.status = "Idle"]
            /\ dsp' = DspIdle
    /\ UNCHANGED <<mbox, trg, panic, trigs, batches, ncb, pst, snd, cblog, crit, nonNotifyVars>>

\* osiEventTryWait: cb(notify->ctx) after osiExitCritical, event->id = NONE
NotifyCallback(t) ==
    /\ dsp.pc = "cb"
    /\ CanRun(t)
    /\ ncb' = ncb + 1
    /\ dsp' = DspIdle
    /\ UNCHANGED <<notify, mbox, trg, panic, trigs, batches, pst, snd, cblog, crit, nonNotifyVars>>

\* the event osiSendQuitEvent sends: OSI_EVENT_ID_QUIT; param1 is the
\* semaphore of the sender's frame (1) when it waits, 0 otherwise
QuitEvent(wait) == Event("Quit", IF wait THEN 1 ELSE 0, 0)

\* a thread inside osiSendQuitEvent: sema is the count of the semaphore
\* created with osiSemaphoreCreateStatic(buf_sema, 1, 0)
QuitCall(pc, e) ==
    [pc |-> pc, ev |-> e, api |-> "quit", tmo |-> "forever", sema |-> 0]

\* osiSendQuitEvent(thread, wait) by thread t, up to the point where it
\* blocks (xQueueSendToBack on a full event queue, or osiSemaphoreAcquire)
\* or returns: false when it would wait for the current thread, true after
\* osiEventSend otherwise, whatever osiEventSend returned
osiSendQuitEvent(t, wait) ==
    /\ t # ISR
    /\ SenderCanRun(t)
    /\ snd.n < MaxPost
    /\ LET ctx == SendCtx(t, "dsp")
           e == QuitEvent(wait)
           refused == wait /\ ctx = "self"
           r == IF refused THEN SendResult(mbox, FALSE, FALSE, FALSE)
                           ELSE osiEventSend(ctx, mbox, e)
       IN  /\ mbox' = r.q
           /\ panic' = r.panic
           /\ pst' = IF r.wait THEN [pst EXCEPT ![t] = QuitCall("send_wait", e)]
                     ELSE IF wait /\ ~refused /\ ~r.panic
                     THEN [pst EXCEPT ![t] = QuitCall("ack_wait", e)]
                     ELSE pst
           /\ snd' = [n |-> snd.n + 1, ctx |-> ctx, api |-> "quit", ev |-> e,
                      full |-> (Len(mbox) >= MboxCap), waited |-> r.wait,
                      returned |-> (~r.wait /\ ~r.panic /\ (wait => refused)),
                      ret |-> ~refused]
    /\ UNCHANGED <<notify, dsp, trg, trigs, batches, ncb, cblog, crit, nonNotifyVars>>

\* osiSendQuitEvent: xQueueSendToBack of the waiting sender ends, with the
\* event queued (sent: there is room) or not (the 1000 ticks of osiEventSend
\* built with CONFIG_QUEC_PROJECT_FEATURE are over); the result is not
\* looked at, and the sender goes on to osiSemaphoreAcquire or returns true
QuitSendEnd(t, sent) ==
    /\ pst[t].pc = "send_wait" /\ pst[t].api = "quit"
    /\ CanRun(t)
    /\ sent => Len(mbox) < MboxCap
    /\ mbox' = IF sent THEN Append(mbox, pst[t].ev) ELSE mbox
    /\ pst' = [pst EXCEPT ![t] = IF pst[t].ev.param1 # 0
                                 THEN QuitCall("ack_wait", pst[t].ev)
                                 ELSE PstIdle]
    /\ snd' = [snd EXCEPT !.ctx = SendCtx(t, "dsp"), !.api = "quit",
                          !.ev = pst[t].ev, !.full = TRUE, !.waited = TRUE,
                          !.returned = (pst[t].ev.param1 = 0), !.ret = TRUE]
    /\ UNCHANGED <<notify, dsp, trg, panic, trigs, batches, ncb, cblog, crit,
                   nonNotifyVars>>

\* osiSendQuitEvent: osiSemaphoreAcquire(sema) returns, osiSemaphoreDelete,
\* return true
QuitAcquire(t) ==
    /\ pst[t].pc = "ack_wait"
    /\ CanRun(t)
    /\ pst[t].sema > 0
    /\ pst' = [pst EXCEPT ![t] = PstIdle]
    /\ snd' = [snd EXCEPT !.ctx = SendCtx(t, "dsp"), !.api = "quit",
                          !.ev = pst[t].ev, !.returned = TRUE, !.ret = TRUE]
    /\ UNCHANGED <<notify, mbox, dsp, trg, panic, trigs, batches, ncb, cblog,
                   crit, nonNotifyVars>>

\* osiEventTryWait: OSI_EVENT_ID_QUIT, osiSemaphoreRelease(param1) if it is
\* not NULL; the event is returned as received
DispatchQuit(t) ==
    /\ dsp.pc = "got" /\ dsp.ev.id = "Quit"
    /\ CanRun(t)
    /\ pst' = [u \in DOMAIN pst |->
                 IF dsp.ev.param1 # 0 /\ pst[u].pc = "ack_wait"
                 THEN [pst[u] EXCEPT !.sema = SemaphoreRelease(@)]
                 ELSE pst[u]]
    /\ dsp' = [dsp EXCEPT !.pc = "idle"]
    /\ UNCHANGED <<notify, mbox, trg, panic, trigs, batches, ncb, snd, cblog,
                   crit, nonNotifyVars>>

-----------------------------------------------------------------------------
(* SPI flash driver: hal_spi_flash.c, hal_spi_flash.h *)

MiB == 1024 * 1024

SIZE_4K == 4096
SIZE_8K == 2 * SIZE_4K
SIZE_16K == 4 * SIZE_4K
SIZE_32K == 8 * SIZE_4K

SECTOR_COUNT_4K == SIZE_4K \div SIZE_4K
SECTOR_COUNT_8K == SIZE_8K \div SIZE_4K
SECTOR_COUNT_16K == SIZE_16K \div SIZE_4K
SECTOR_COUNT_32K == SIZE_32K \div SIZE_4K
SECTOR_COUNT_1M == (1 * MiB) \div SIZE_4K
SECTOR_COUNT_2M == (2 * MiB) \div SIZE_4K
SECTOR_COUNT_4M == (4 * MiB) \div SIZE_4K
SECTOR_COUNT_8M == (8 * MiB) \div SIZE_4K
SECTOR_COUNT_16M == (16 * MiB) \div SIZE_4K

\* halSpiFlashWpMap_t
WpEntry(offset, wp) == [offset |-> offset, wp |-> wp]

\* gGD8MWpMap (offset in units, WP bits by name)
gGD8MWpMap ==
    << WpEntry(SECTOR_COUNT_1M, "GD_WP8M_ALL"),
       WpEntry(SECTOR_COUNT_1M - SECTOR_COUNT_1M \div 16, "GD_WP8M_15_16"),
       WpEntry(SECTOR_COUNT_1M - SECTOR_COUNT_1M \div 8, "GD_WP8M_7_8"),
       WpEntry(SECTOR_COUNT_1M - SECTOR_COUNT_1M \div 4, "GD_WP8M_3_4"),
       WpEntry(SECTOR_COUNT_1M \div 2, "GD_WP8M_1_2"),
       WpEntry(SECTOR_COUNT_1M \div 4, "GD_WP8M_1_4"),
       WpEntry(SECTOR_COUNT_1M \div 8, "GD_WP8M_1_8"),
       WpEntry(SECTOR_COUNT_1M \div 16, "GD_WP8M_1_16"),
       WpEntry(SECTOR_COUNT_32K, "GD_WP8M_32K"),
       WpEntry(SECTOR_COUNT_16K, "GD_WP8M_16K"),
       WpEntry(SECTOR_COUNT_8K, "GD_WP8M_8K"),
       WpEntry(SECTOR_COUNT_4K, "GD_WP8M_4K"),
       WpEntry(0, "GD_WP8M_NONE") >>

\* gGD16MWpMap (offset in units, WP bits by name)
gGD16MWpMap ==
    << WpEntry(SECTOR_COUNT_2M, "GD_WP16M_ALL"),
       WpEntry(SECTOR_COUNT_2M - SECTOR_COUNT_2M \div 32, "GD_WP16M_31_32"),
       WpEntry(SECTOR_COUNT_2M - SECTOR_COUNT_2M \div 16, "GD_WP16M_15_16"),
       WpEntry(SECTOR_COUNT_2M - SECTOR_COUNT_2M \div 8, "GD_WP16M_7_8"),
       WpEntry(SECTOR_COUNT_2M - SECTOR_COUNT_2M \div 4, "GD_WP16M_3_4"),
       WpEntry(SECTOR_COUNT_2M \div 2, "GD_WP16M_1_2"),
       WpEntry(SECTOR_COUNT_2M \div 4, "GD_WP16M_1_4"),
       WpEntry(SECTOR_COUNT_2M \div 8, "GD_WP16M_1_8"),
       WpEntry(SECTOR_COUNT_2M \div 16, "GD_WP16M_1_16"),
       WpEntry(SECTOR_COUNT_2M \div 32, "GD_WP16M_1_32"),
       WpEntry(SECTOR_COUNT_32K, "GD_WP16M_32K"),
       WpEntry(SECTOR_COUNT_16K, "GD_WP16M_16K"),
       WpEntry(SECTOR_COUNT_8K, "GD_WP16M_8K"),
       WpEntry(SECTOR_COUNT_4K, "GD_WP16M_4K"),
       WpEntry(0, "GD_WP16M_NONE") >>

\* gGD32MWpMap (offset in units, WP bits by name)
gGD32MWpMap ==
    << WpEntry(SECTOR_COUNT_4M, "GD_WP32M_ALL"),
       WpEntry(SECTOR_COUNT_4M - SECTOR_COUNT_4M \div 64, "GD_WP32M_63_64"),
       WpEntry(SECTOR_COUNT_4M - SECTOR_COUNT_4M \div 32, "GD_WP32M_31_32"),
       WpEntry(SECTOR_COUNT_4M - SECTOR_COUNT_4M \div 16, "GD_WP32M_15_16"),
       WpEntry(SECTOR_COUNT_4M - SECTOR_COUNT_4M \div 8, "GD_WP32M_7_8"),
       WpEntry(SECTOR_COUNT_4M - SECTOR_COUNT_4M \div 4, "GD_WP32M_3_4"),
       WpEntry(SECTOR_COUNT_4M \div 2, "GD_WP32M_1_2"),
       WpEntry(SECTOR_COUNT_4M \div 4, "GD_WP32M_1_4"),
       WpEntry(SECTOR_COUNT_4M \div 8, "GD_WP32M_1_8"),
       WpEntry(SECTOR_COUNT_4M \div 16, "GD_WP32M_1_16"),
       WpEntry(SECTOR_COUNT_4M \div 32, "GD_WP32M_1_32"),
       WpEntry(SECTOR_COUNT_4M \div 64, "GD_WP32M_1_64"),
       WpEntry(SECTOR_COUNT_32K, "GD_WP32M_32K"),
       WpEntry(SECTOR_COUNT_16K, "GD_WP32M_16K"),
       WpEntry(SECTOR_COUNT_8K, "GD_WP32M_8K"),
       WpEntry(SECTOR_COUNT_4K, "GD_WP32M_4K"),
       WpEntry(0, "GD_WP32M_NONE") >>

\* gGD64MWpMap (offset in units, WP bits by name)
gGD64MWpMap ==
    << WpEntry(SECTOR_COUNT_8M, "GD_WP32M_ALL"),
       WpEntry(SECTOR_COUNT_8M - SECTOR_COUNT_8M \div 64, "GD_WP32M_63_64"),
       WpEntry(SECTOR_COUNT_8M - SECTOR_COUNT_8M \div 32, "GD_WP32M_31_32"),
       WpEntry(SECTOR_COUNT_8M - SECTOR_COUNT_8M \div 16, "GD_WP32M_15_16"),
       WpEntry(SECTOR_COUNT_8M - SECTOR_COUNT_8M \div 8, "GD_WP32M_7_8"),
       WpEntry(SECTOR_COUNT_8M - SECTOR_COUNT_8M \div 4, "GD_WP32M_3_4"),
       WpEntry(SECTOR_COUNT_8M \div 2, "GD_WP32M_1_2"),
       WpEntry(SECTOR_COUNT_8M \div 4, "GD_WP32M_1_4"),
       WpEntry(SECTOR_COUNT_8M \div 8, "GD_WP32M_1_8"),
       WpEntry(SECTOR_COUNT_8M \div 16, "GD_WP32M_1_16"),
       WpEntry(SECTOR_COUNT_8M \div 32, "GD_WP32M_1_32"),
       WpEntry(SECTOR_COUNT_8M \div 64, "GD_WP32M_1_64"),
       WpEntry(SECTOR_COUNT_32K, "GD_WP32M_32K"),
       WpEntry(SECTOR_COUNT_16K, "GD_WP32M_16K"),
       WpEntry(SECTOR_COUNT_8K, "GD_WP32M_8K"),
       WpEntry(SECTOR_COUNT_4K, "GD_WP32M_4K"),
       WpEntry(0, "GD_WP32M_NONE") >>

\* gGD128MWpMap (offset in units, WP bits by name)
gGD128MWpMap ==
    << WpEntry(SECTOR_COUNT_16M, "GD_WP32M_ALL"),
       WpEntry(SECTOR_COUNT_16M - SECTOR_COUNT_16M \div 64, "GD_WP32M_63_64"),
       WpEntry(SECTOR_COUNT_16M - SECTOR_COUNT_16M \div 32, "GD_WP32M_31_32"),
       WpEntry(SECTOR_COUNT_16M - SECTOR_COUNT_16M \div 16, "GD_WP32M_15_16"),
       WpEntry(SECTOR_COUNT_16M - SECTOR_COUNT_16M \div 8, "GD_WP32M_7_8"),
       WpEntry(SECTOR_COUNT_16M - SECTOR_COUNT_16M \div 4, "GD_WP32M_3_4"),
       WpEntry(SECTOR_COUNT_16M \div 2, "GD_WP32M_1_2"),
       WpEntry(SECTOR_COUNT_16M \div 4, "GD_WP32M_1_4"),
       WpEntry(SECTOR_COUNT_16M \div 8, "GD_WP32M_1_8"),
       WpEntry(SECTOR_COUNT_16M \div 16, "GD_WP32M_1_16"),
       WpEntry(SECTOR_COUNT_16M \div 32, "GD_WP32M_1_32"),
       WpEntry(SECTOR_COUNT_16M \div 64, "GD_WP32M_1_64"),
       WpEntry(SECTOR_COUNT_32K, "GD_WP32M_32K"),
       WpEntry(SECTOR_COUNT_16K, "GD_WP32M_16K"),
       WpEntry(SECTOR_COUNT_8K, "GD_WP32M_8K"),
       WpEntry(SECTOR_COUNT_4K, "GD_WP32M_4K"),
       WpEntry(0, "GD_WP32M_NONE") >>

\* gXmcaWpMap (offset in units, WP bits by name)
gXmcaWpMap ==
    << WpEntry(128, "XMCA_WP_ALL"),
       WpEntry(127, "XMCA_WP_127_128"),
       WpEntry(126, "XMCA_WP_126_128"),
       WpEntry(124, "XMCA_WP_124_128"),
       WpEntry(120, "XMCA_WP_120_128"),
       WpEntry(112, "XMCA_WP_112_128"),
       WpEntry(96, "XMCA_WP_96_128"),
       WpEntry(64, "XMCA_WP_64_128"),
       WpEntry(32, "XMCA_WP_32_128"),
       WpEntry(16, "XMCA_WP_16_128"),
       WpEntry(8, "XMCA_WP_8_128"),
       WpEntry(4, "XMCA_WP_4_128"),
       WpEntry(2, "XMCA_WP_2_128"),
       WpEntry(1, "XMCA_WP_1_128"),
       WpEntry(0, "XMCA_WP_NONE") >>

\* a flash ID as RDID returns it: manufacturer in the low byte, then the
\* memory type, then the capacity bits
Mid(vendor, memtype, capbits) == vendor + 256 * memtype + 65536 * capbits

\* MID_CAPBITS: the third byte of the ID
MID_CAPBITS(mid) == (mid \div 65536) % 256

\* halSpiFlash_t, with the fields the model reads
FlashDesc(mid, capacity, type, wp_type) ==
    [mid |-> mid, capacity |-> capacity, type |-> type, wp_type |-> wp_type,
     sreg_block_size |-> 0, sreg_min_num |-> 0, sreg_max_num |-> 0,
     volatile_sr_en |-> FALSE, write_sr12 |-> FALSE, has_sr2 |-> FALSE,
     has_sus1 |-> FALSE, has_sus2 |-> FALSE]

\* the result of a scan that ran past the end of a table
WpOverrun == 0 - 1

\* a wrong scan: the first entry of the table is taken whatever the offset
prvFindFromWpOffsetFirst(wpmap, offset) == Head(wpmap).offset % 65536

\* a wrong scan: the entry is taken only when the offset is above it
RECURSIVE prvFindFromWpOffsetGt(_, _)
prvFindFromWpOffsetGt(wpmap, offset) ==
    IF wpmap = <<>> THEN WpOverrun
    ELSE IF offset > Head(wpmap).offset THEN Head(wpmap).offset % 65536
    ELSE prvFindFromWpOffsetGt(Tail(wpmap), offset)

\* prvFindFromWpOffset: for (;;) { if (offset >= wpmap->offset) return
\* wpmap->offset; ++wpmap; }, the result a uint16_t
RECURSIVE prvFindFromWpOffset(_, _)
prvFindFromWpOffset(wpmap, offset) ==
    IF wpmap = <<>> THEN WpOverrun
    ELSE IF offset >= Head(wpmap).offset THEN Head(wpmap).offset % 65536
    ELSE prvFindFromWpOffset(Tail(wpmap), offset)

\* osiUintRange_t
UintRange(minval, maxval) == [minval |-> minval, maxval |-> maxval]

\* halSpiFlashWpRange(d, offset, size)
halSpiFlashWpRange(d, offset, size) ==
    IF d.wp_type = "GD"
    THEN LET scount == offset \div SIZE_4K
         IN  IF d.capacity = 1 * MiB
             THEN UintRange(0, prvFindFromWpOffset(gGD8MWpMap, scount) * SIZE_4K)
             ELSE IF d.capacity = 2 * MiB
             THEN UintRange(0, prvFindFromWpOffset(gGD16MWpMap, scount) * SIZE_4K)
             ELSE IF d.capacity = 4 * MiB
             THEN UintRange(0, prvFindFromWpOffset(gGD32MWpMap, scount) * SIZE_4K)
             ELSE IF d.capacity = 8 * MiB
             THEN UintRange(0, prvFindFromWpOffset(gGD64MWpMap, scount) * SIZE_4K)
             ELSE IF d.capacity = 16 * MiB
             THEN UintRange(0, prvFindFromWpOffset(gGD128MWpMap, scount) * SIZE_4K)
             ELSE UintRange(0, 0)
    ELSE IF d.wp_type = "XMCA"
    THEN LET shift == 2 ^ (MID_CAPBITS(d.mid) - 7)
             num == offset \div shift
         IN  UintRange(0, prvFindFromWpOffset(gXmcaWpMap, num) * shift)
    ELSE UintRange(0, 0)

\* bit operations on unsigned values
RECURSIVE BitAnd(_, _)
BitAnd(a, b) ==
    IF a = 0 \/ b = 0 THEN 0
    ELSE (a % 2) * (b % 2) + 2 * BitAnd(a \div 2, b \div 2)

BitOr(a, b) == a + b - BitAnd(a, b)

\* a & ~m
BitClear(a, m) == a - BitAnd(a, m)

\* the status register bits of hal_spi_flash_defs.h: WIP and WEL in SR1, QE
\* and the suspend flags in SR2, the block protect field BP0..BP4 with CMP
STREG_WIP == 1
STREG_WEL == 2
GD_SR_QE == 512
GD_SR_SUS1 == 32768
GD_SR_SUS2 == 1024
GD_WP8M_MASK == 16508
GD_WP16M_MASK == 16508
GD_WP32M_MASK == 16508
XMCA_WP_MASK == 60
XMCA_SR_OTP_TB == 8
XMCA_SR_BP == 60
XMCA_SR_EBL == 64
XMCA_SR_SRP == 128
XMCB_SR_QE == 64

\* the write-protect patterns of hal_spi_flash_defs.h: one value of the
\* block protect field for every protected fraction, none for nothing
\* protected
WpBits ==
    "GD_WP16M_15_16" :> 52 @@ "GD_WP16M_16K" :> 12 @@ "GD_WP16M_1_16" :> 28 @@
    "GD_WP16M_1_2" :> 40 @@ "GD_WP16M_1_32" :> 24 @@ "GD_WP16M_1_4" :> 36 @@
    "GD_WP16M_1_8" :> 32 @@ "GD_WP16M_31_32" :> 56 @@ "GD_WP16M_32K" :> 16 @@
    "GD_WP16M_3_4" :> 44 @@ "GD_WP16M_4K" :> 4 @@ "GD_WP16M_7_8" :> 48 @@
    "GD_WP16M_8K" :> 8 @@ "GD_WP16M_ALL" :> 64 @@ "GD_WP16M_NONE" :> 0 @@
    "GD_WP32M_15_16" :> 52 @@ "GD_WP32M_16K" :> 12 @@ "GD_WP32M_1_16" :> 28 @@
    "GD_WP32M_1_2" :> 40 @@ "GD_WP32M_1_32" :> 24 @@ "GD_WP32M_1_4" :> 36 @@
    "GD_WP32M_1_64" :> 20 @@ "GD_WP32M_1_8" :> 32 @@ "GD_WP32M_31_32" :> 56 @@
    "GD_WP32M_32K" :> 16 @@ "GD_WP32M_3_4" :> 44 @@ "GD_WP32M_4K" :> 4 @@
    "GD_WP32M_63_64" :> 60 @@ "GD_WP32M_7_8" :> 48 @@ "GD_WP32M_8K" :> 8 @@
    "GD_WP32M_ALL" :> 64 @@ "GD_WP32M_NONE" :> 0 @@ "GD_WP8M_15_16" :> 52 @@
    "GD_WP8M_16K" :> 12 @@ "GD_WP8M_1_16" :> 28 @@ "GD_WP8M_1_2" :> 40 @@
    "GD_WP8M_1_4" :> 36 @@ "GD_WP8M_1_8" :> 32 @@ "GD_WP8M_32K" :> 16 @@
    "GD_WP8M_3_4" :> 44 @@ "GD_WP8M_4K" :> 4 @@ "GD_WP8M_7_8" :> 48 @@
    "GD_WP8M_8K" :> 8 @@ "GD_WP8M_ALL" :> 64 @@ "GD_WP8M_NONE" :> 0 @@
    "XMCA_WP_112_128" :> 36 @@ "XMCA_WP_120_128" :> 40 @@ "XMCA_WP_124_128" :> 44 @@
    "XMCA_WP_126_128" :> 48 @@ "XMCA_WP_127_128" :> 52 @@ "XMCA_WP_16_128" :> 20 @@
    "XMCA_WP_1_128" :> 4 @@ "XMCA_WP_2_128" :> 8 @@ "XMCA_WP_32_128" :> 24 @@
    "XMCA_WP_4_128" :> 12 @@ "XMCA_WP_64_128" :> 28 @@ "XMCA_WP_8_128" :> 16 @@
    "XMCA_WP_96_128" :> 32 @@ "XMCA_WP_ALL" :> 56 @@ "XMCA_WP_NONE" :> 0

\* the flash device behind the controller: its ID, the stored bits of SR2:SR1
\* (WIP and WEL apart), the bits a status write can change, the status reads
\* a write in progress still takes, the write enable latches, the reset
\* latch, the OTP mode of XMCA parts with its own status register, whether
\* 01h takes two bytes, the volatile writes that still fail silently, and
\* the function register of XMCB parts
Device(id, sr, wmask) ==
    [id |-> id, sr |-> sr, wmask |-> wmask, busy |-> 0, wel |-> FALSE,
     vwel |-> FALSE, rsten |-> FALSE, otp |-> FALSE, sr_otp |-> 0,
     sr12 |-> TRUE, vfail |-> 0, fr |-> 0]

\* what RDSR shows: the stored bits with WIP and WEL
DevSR(dv) ==
    dv.sr + (IF dv.busy > 0 THEN STREG_WIP ELSE 0) + (IF dv.wel THEN STREG_WEL ELSE 0)

\* the device takes the status byte(s) of a write: the writable bits of the
\* bytes written change, the others stay
DevStore(dv, mask, value) ==
    LET m == BitAnd(mask, dv.wmask)
    IN  BitOr(BitClear(dv.sr, m), BitAnd(value, m))

\* a status write of bytes "data" to the register(s) under "mask"
DevWriteSR(dv, mask, value) ==
    IF dv.busy > 0 THEN dv
    ELSE IF dv.vwel
    THEN IF dv.vfail > 0
         THEN [dv EXCEPT !.vwel = FALSE, !.vfail = @ - 1]
         ELSE [dv EXCEPT !.vwel = FALSE, !.sr = DevStore(dv, mask, value)]
    ELSE IF ~dv.wel THEN dv
    ELSE IF dv.otp
    THEN [dv EXCEPT !.sr_otp = BitOr(@, value % 256), !.busy = 1]
    ELSE [dv EXCEPT !.sr = DevStore(dv, mask, value), !.busy = 1]

\* software reset: the operation in progress is dropped with its suspend
\* state, the latches are cleared
DevReset(dv) ==
    IF ~dv.rsten THEN dv
    ELSE [dv EXCEPT !.busy = 0, !.wel = FALSE, !.vwel = FALSE, !.rsten = FALSE,
                    !.otp = FALSE,
                    !.sr = BitClear(@, GD_SR_SUS1 + GD_SR_SUS2)]

\* the device executes a command without answer
DevExec(dv, op, data) ==
    IF op = 6 THEN (IF dv.busy > 0 THEN dv ELSE [dv EXCEPT !.wel = TRUE])
    ELSE IF op = 4 THEN [dv EXCEPT !.wel = FALSE, !.otp = FALSE]
    ELSE IF op = 80 THEN (IF dv.busy > 0 THEN dv ELSE [dv EXCEPT !.vwel = TRUE])
    ELSE IF op = 1 /\ Len(data) = 1 THEN DevWriteSR(dv, 255, data[1])
    ELSE IF op = 1 /\ Len(data) = 2
    THEN IF dv.sr12 THEN DevWriteSR(dv, 65535, data[1] + 256 * data[2])
         ELSE DevWriteSR(dv, 255, data[1])
    ELSE IF op = 49 /\ Len(data) = 1 THEN DevWriteSR(dv, 65280, 256 * data[1])
    ELSE IF op = 102 THEN [dv EXCEPT !.rsten = TRUE]
    ELSE IF op = 153 THEN DevReset(dv)
    ELSE IF op = 58 THEN [dv EXCEPT !.otp = TRUE]
    ELSE IF op = 66 /\ Len(data) = 1 /\ dv.wel /\ dv.busy = 0
    THEN [dv EXCEPT !.fr = BitOr(@, data[1]), !.busy = 1]
    ELSE dv

\* the answer of the device to a command that reads
DevRead(dv, op) ==
    IF op = 159 THEN dv.id
    ELSE IF op = 5 THEN (IF dv.otp THEN dv.sr_otp ELSE DevSR(dv) % 256)
    ELSE IF op = 53 THEN DevSR(dv) \div 256
    ELSE IF op = 72 THEN dv.fr
    ELSE 0

\* time passes with every read of SR1: a write in progress ends, and WEL
\* falls with it
DevAfterRead(dv, op) ==
    IF op = 5 /\ dv.busy > 0
    THEN [dv EXCEPT !.busy = @ - 1, !.wel = IF dv.busy = 1 THEN FALSE ELSE @]
    ELSE dv

\* a command on the bus
FlashCmd(op, data) == [op |-> op, data |-> data]

\* the driver at work on the device: the device, the commands issued so
\* far, the value read by the last command
FlashCtx(dv) == [dev |-> dv, log |-> <<>>, rx |-> 0]

\* prvCmdNoRx, prvCmdOnlyNoRx: a command with its bytes, nothing read
prvCmdNoRx(F, op, data) ==
    [dev |-> DevExec(F.dev, op, data), log |-> Append(F.log, FlashCmd(op, data)),
     rx |-> F.rx]

\* prvCmdOnlyReadback: a command that reads its answer
prvCmdOnlyReadback(F, op) ==
    [dev |-> DevAfterRead(F.dev, op), log |-> Append(F.log, FlashCmd(op, <<>>)),
     rx |-> DevRead(F.dev, op)]

prvReadSR1(F) == prvCmdOnlyReadback(F, 5)

prvReadSR2(F) == prvCmdOnlyReadback(F, 53)

\* (prvReadSR2(d) << 8) | prvReadSR1(d)
prvReadSR12(F) ==
    LET a == prvReadSR2(F)
        b == prvReadSR1(a)
    IN  [b EXCEPT !.rx = a.rx * 256 + b.rx]

prvWriteSR12(F, sr) == prvCmdNoRx(F, 1, <<sr % 256, (sr \div 256) % 256>>)

prvWriteSR1(F, sr) == prvCmdNoRx(F, 1, <<sr % 256>>)

prvWriteSR2(F, sr) == prvCmdNoRx(F, 49, <<sr % 256>>)

prvWriteVolatileSREnable(F) == prvCmdNoRx(F, 80, <<>>)

prvReadId(F) == prvCmdOnlyReadback(F, 159)

halSpiFlashWriteEnable(F) == prvCmdNoRx(F, 6, <<>>)

halSpiFlashWriteDisable(F) == prvCmdNoRx(F, 4, <<>>)

halSpiFlashResetEnable(F) == prvCmdNoRx(F, 102, <<>>)

halSpiFlashReset(F) == prvCmdNoRx(F, 153, <<>>)

\* halSpiFlashReadSR
halSpiFlashReadSR(d, F) == IF d.has_sr2 THEN prvReadSR12(F) ELSE prvReadSR1(F)

\* halSpiFlashIsWipFinished: rx is 1 when two reads of SR1 show WIP clear
halSpiFlashIsWipFinished(F) ==
    LET a == prvReadSR1(F)
    IN  IF BitAnd(a.rx, STREG_WIP) # 0 THEN [a EXCEPT !.rx = 0]
        ELSE LET b == prvReadSR1(a)
             IN  [b EXCEPT !.rx = IF BitAnd(b.rx, STREG_WIP) # 0 THEN 0 ELSE 1]

\* halSpiFlashWaitWipFinish: OSI_LOOP_WAIT(halSpiFlashIsWipFinished(d))
RECURSIVE halSpiFlashWaitWipFinish(_)
halSpiFlashWaitWipFinish(F) ==
    LET a == halSpiFlashIsWipFinished(F)
    IN  IF a.rx = 1 THEN a ELSE halSpiFlashWaitWipFinish(a)

\* a wrong halSpiFlashWriteSR: SR2 is written without a second WREN
halSpiFlashWriteSROneWren(d, F, sr) ==
    IF ~d.has_sr2
    THEN halSpiFlashWaitWipFinish(prvWriteSR1(halSpiFlashWriteEnable(F), sr % 256))
    ELSE IF d.write_sr12
    THEN halSpiFlashWaitWipFinish(prvWriteSR12(halSpiFlashWriteEnable(F), sr))
    ELSE LET a == halSpiFlashWaitWipFinish(
                      prvWriteSR1(halSpiFlashWriteEnable(F), sr % 256))
         IN  halSpiFlashWaitWipFinish(prvWriteSR2(a, (sr \div 256) % 256))

\* halSpiFlashWriteSR
halSpiFlashWriteSR(d, F, sr) ==
    IF ~d.has_sr2
    THEN halSpiFlashWaitWipFinish(prvWriteSR1(halSpiFlashWriteEnable(F), sr % 256))
    ELSE IF d.write_sr12
    THEN halSpiFlashWaitWipFinish(prvWriteSR12(halSpiFlashWriteEnable(F), sr))
    ELSE LET a == halSpiFlashWaitWipFinish(
                      prvWriteSR1(halSpiFlashWriteEnable(F), sr % 256))
         IN  halSpiFlashWaitWipFinish(
                 prvWriteSR2(halSpiFlashWriteEnable(a), (sr \div 256) % 256))

\* prvFindFromWpMap: the scan of prvFindFromWpOffset, the result the WP bits
RECURSIVE prvFindFromWpMap(_, _)
prvFindFromWpMap(wpmap, offset) ==
    IF wpmap = <<>> THEN WpOverrun
    ELSE IF offset >= Head(wpmap).offset THEN WpBits[Head(wpmap).wp] % 65536
    ELSE prvFindFromWpMap(Tail(wpmap), offset)

\* prvStatusWpLowerGD
prvStatusWpLowerGD(d, sr, offset) ==
    LET scount == offset \div SIZE_4K
    IN  IF d.capacity = 1 * MiB
        THEN BitOr(BitClear(sr, GD_WP8M_MASK), prvFindFromWpMap(gGD8MWpMap, scount))
        ELSE IF d.capacity = 2 * MiB
        THEN BitOr(BitClear(sr, GD_WP16M_MASK), prvFindFromWpMap(gGD16MWpMap, scount))
        ELSE IF d.capacity = 4 * MiB
        THEN BitOr(BitClear(sr, GD_WP32M_MASK), prvFindFromWpMap(gGD32MWpMap, scount))
        ELSE IF d.capacity = 8 * MiB
        THEN BitOr(BitClear(sr, GD_WP32M_MASK), prvFindFromWpMap(gGD64MWpMap, scount))
        ELSE IF d.capacity = 16 * MiB
        THEN BitOr(BitClear(sr, GD_WP32M_MASK), prvFindFromWpMap(gGD128MWpMap, scount))
        ELSE sr

\* prvStatusWpAllGD
prvStatusWpAllGD(d, sr) ==
    IF d.capacity = 1 * MiB
    THEN BitOr(BitClear(sr, GD_WP8M_MASK), WpBits["GD_WP8M_ALL"])
    ELSE IF d.capacity = 2 * MiB
    THEN BitOr(BitClear(sr, GD_WP16M_MASK), WpBits["GD_WP16M_ALL"])
    ELSE BitOr(BitClear(sr, GD_WP32M_MASK), WpBits["GD_WP32M_ALL"])

\* prvStatusWpLowerXMCA: sr is a uint8_t
prvStatusWpLowerXMCA(d, sr, offset) ==
    LET num == offset \div 2 ^ (MID_CAPBITS(d.mid) - 7)
    IN  BitOr(BitClear(sr % 256, XMCA_WP_MASK), prvFindFromWpMap(gXmcaWpMap, num))

\* prvStatusWpAllXMCA
prvStatusWpAllXMCA(d, sr) ==
    BitOr(BitClear(sr % 256, XMCA_WP_MASK), WpBits["XMCA_WP_ALL"]) % 256

\* prvWriteVolatileSR12: for (;;) { 50h and the write(s); if (prvReadSR12(d)
\* == sr) break; }
RECURSIVE prvWriteVolatileSR12(_, _, _)
prvWriteVolatileSR12(d, F, sr) ==
    LET w == IF d.write_sr12
             THEN prvWriteSR12(prvWriteVolatileSREnable(F), sr)
             ELSE prvWriteSR2(
                      prvWriteVolatileSREnable(
                          prvWriteSR1(prvWriteVolatileSREnable(F), sr % 256)),
                      (sr \div 256) % 256)
        r == prvReadSR12(w)
    IN  IF r.rx = sr THEN r ELSE prvWriteVolatileSR12(d, r, sr)

\* prvWriteVolatileSR1
RECURSIVE prvWriteVolatileSR1(_, _, _)
prvWriteVolatileSR1(d, F, sr) ==
    LET r == prvReadSR1(prvWriteSR1(prvWriteVolatileSREnable(F), sr))
    IN  IF r.rx = sr THEN r ELSE prvWriteVolatileSR1(d, r, sr)

\* a wrong halSpiFlashPrepareEraseProgram: the volatile status register is
\* written whether it differs or not
halSpiFlashPrepareEraseProgramAlways(d, F, offset, size) ==
    IF ~d.volatile_sr_en THEN halSpiFlashWriteEnable(F)
    ELSE IF d.wp_type = "GD"
    THEN LET r == prvReadSR12(F)
         IN  halSpiFlashWriteEnable(
                 prvWriteVolatileSR12(d, r, prvStatusWpLowerGD(d, r.rx, offset)))
    ELSE IF d.wp_type = "XMCA"
    THEN LET r == prvReadSR1(F)
         IN  halSpiFlashWriteEnable(
                 prvWriteVolatileSR1(d, r, prvStatusWpLowerXMCA(d, r.rx, offset) % 256))
    ELSE halSpiFlashWriteEnable(F)

\* halSpiFlashPrepareEraseProgram
halSpiFlashPrepareEraseProgram(d, F, offset, size) ==
    IF ~d.volatile_sr_en THEN halSpiFlashWriteEnable(F)
    ELSE IF d.wp_type = "GD"
    THEN LET r == prvReadSR12(F)
             sr_open == prvStatusWpLowerGD(d, r.rx, offset)
         IN  halSpiFlashWriteEnable(
                 IF r.rx # sr_open THEN prvWriteVolatileSR12(d, r, sr_open) ELSE r)
    ELSE IF d.wp_type = "XMCA"
    THEN LET r == prvReadSR1(F)
             sr_open == prvStatusWpLowerXMCA(d, r.rx, offset) % 256
         IN  halSpiFlashWriteEnable(
                 IF r.rx # sr_open THEN prvWriteVolatileSR1(d, r, sr_open) ELSE r)
    ELSE halSpiFlashWriteEnable(F)

\* prvStatusCheckXMCA
prvStatusCheckXMCA(d, F) ==
    LET a == prvReadSR1(prvCmdNoRx(halSpiFlashReset(halSpiFlashResetEnable(F)), 58, <<>>))
        b == IF BitAnd(a.rx, XMCA_SR_OTP_TB) = 0
             THEN halSpiFlashWaitWipFinish(
                      prvWriteSR1(halSpiFlashWriteEnable(a), BitOr(a.rx, XMCA_SR_OTP_TB)))
             ELSE a
        c == prvReadSR1(halSpiFlashWriteDisable(b))
        sr_needed == BitClear(BitOr(c.rx, XMCA_SR_BP), XMCA_SR_EBL + XMCA_SR_SRP)
    IN  IF c.rx # sr_needed
        THEN halSpiFlashWaitWipFinish(prvWriteSR1(halSpiFlashWriteEnable(c), sr_needed))
        ELSE c

\* prvStatusCheckXMCB
prvStatusCheckXMCB(d, F) ==
    LET a == prvReadSR1(halSpiFlashReset(halSpiFlashResetEnable(F)))
    IN  IF a.rx # XMCB_SR_QE
        THEN halSpiFlashWaitWipFinish(prvWriteSR1(halSpiFlashWriteEnable(a), XMCB_SR_QE))
        ELSE a

\* a wrong prvStatusCheckGD: the status register is written whatever was read
prvStatusCheckGDAlways(d, F) ==
    LET a == halSpiFlashReadSR(d, F)
        need_reset_mask == STREG_WEL + STREG_WIP
                             + (IF d.has_sus1 THEN GD_SR_SUS1 ELSE 0)
                             + (IF d.has_sus2 THEN GD_SR_SUS2 ELSE 0)
        b == IF BitAnd(a.rx, need_reset_mask) # 0
             THEN halSpiFlashReadSR(d, halSpiFlashReset(halSpiFlashResetEnable(a)))
             ELSE a
        qe == BitOr(b.rx, GD_SR_QE)
        sr_needed == IF d.wp_type = "GD" THEN prvStatusWpAllGD(d, qe) ELSE qe
    IN  halSpiFlashWriteSR(d, b, sr_needed)

\* prvStatusCheckGD
prvStatusCheckGD(d, F) ==
    LET a == halSpiFlashReadSR(d, F)
        need_reset_mask == STREG_WEL + STREG_WIP
                             + (IF d.has_sus1 THEN GD_SR_SUS1 ELSE 0)
                             + (IF d.has_sus2 THEN GD_SR_SUS2 ELSE 0)
        b == IF BitAnd(a.rx, need_reset_mask) # 0
             THEN halSpiFlashReadSR(d, halSpiFlashReset(halSpiFlashResetEnable(a)))
             ELSE a
        qe == BitOr(b.rx, GD_SR_QE)
        sr_needed == IF d.wp_type = "GD" THEN prvStatusWpAllGD(d, qe) ELSE qe
    IN  IF b.rx # sr_needed THEN halSpiFlashWriteSR(d, b, sr_needed) ELSE b

\* the types of the GD family
GDFamily == {"GD", "WINBOND", "XMCC", "XTX", "PUYA"}

\* halSpiFlashStatusCheck
halSpiFlashStatusCheck(d, F) ==
    IF d.type \in GDFamily THEN prvStatusCheckGD(d, F)
    ELSE IF d.type = "XMCA" THEN prvStatusCheckXMCA(d, F)
    ELSE IF d.type = "XMCB" THEN prvStatusCheckXMCB(d, F)
    ELSE F

\* the first entry of the table whose mid is key, 0 when there is none
FirstProp(table, key) ==
    IF \E n \in 1..Len(table) : table[n].mid = key
    THEN CHOOSE n \in 1..Len(table) :
             /\ table[n].mid = key
             /\ \A k \in 1..(n - 1) : table[k].mid # key
    ELSE 0

\* a wrong lookup: the stage of the manufacturer is tried before the stage
\* of manufacturer and memory type
prvFlashPropsFoundVendorFirst(table, mid) ==
    IF FirstProp(table, mid) # 0 THEN FirstProp(table, mid)
    ELSE IF FirstProp(table, mid % 256) # 0 THEN FirstProp(table, mid % 256)
    ELSE FirstProp(table, mid % 65536)

\* the three loops of prvFlashPropsByMid: "found", an index from 1, 0 for -1
prvFlashPropsFound(table, mid) ==
    IF FirstProp(table, mid) # 0 THEN FirstProp(table, mid)
    ELSE IF FirstProp(table, mid % 65536) # 0 THEN FirstProp(table, mid % 65536)
    ELSE FirstProp(table, mid % 256)

\* a wrong copy: the capacity of the table entry is kept
prvFlashPropsByMidKeep(table, d, mid) ==
    [table[prvFlashPropsFound(table, mid)] EXCEPT !.mid = mid]

\* prvFlashPropsByMid, for found >= 0: the fields from capacity to the end
\* are copied from the entry, then mid and capacity are set
prvFlashPropsByMid(table, d, mid) ==
    [table[prvFlashPropsFound(table, mid)] EXCEPT
        !.mid = mid, !.capacity = 2 ^ MID_CAPBITS(mid)]

\* halSpiFlashInit: the descriptor, the device and the commands after it;
\* osiPanic() does not return
halSpiFlashInit(table, d, F) ==
    LET r == prvReadId(F)
    IN  IF prvFlashPropsFound(table, r.rx) = 0
        THEN [d |-> d, F |-> r, panic |-> TRUE]
        ELSE LET d2 == prvFlashPropsByMid(table, d, r.rx)
             IN  [d |-> d2, F |-> halSpiFlashStatusCheck(d2, r), panic |-> FALSE]

\* the last call of the driver: nothing yet, with the arguments of the call
\* to come
FCallNone(offset, size) ==
    [fn |-> "none", offset |-> offset, size |-> size, sr |-> 0, num |-> 0,
     ret |-> UintRange(0, 0), log |-> <<>>, log2 |-> <<>>, panic |-> FALSE]

\* a call of halSpiFlashWpRange on the descriptor with the arguments drawn
WpRangeCall ==
    /\ fres.fn = "none"
    /\ fres' = [fres EXCEPT !.fn = "halSpiFlashWpRange",
                            !.ret = halSpiFlashWpRange(fd, fres.offset, fres.size)]
    /\ UNCHANGED <<fd, dev, props, nonFlashVars>>

\* a call of halSpiFlashInit
InitCall ==
    /\ fres.fn = "none"
    /\ LET r == halSpiFlashInit(props, fd, FlashCtx(dev))
       IN  /\ fd' = r.d
           /\ dev' = r.F.dev
           /\ fres' = [fres EXCEPT !.fn = "halSpiFlashInit", !.log = r.F.log,
                                   !.panic = r.panic]
    /\ UNCHANGED <<props, nonFlashVars>>

\* a call of halSpiFlashWriteSR
WriteSRCall ==
    /\ fres.fn = "none"
    /\ LET F == halSpiFlashWriteSR(fd, FlashCtx(dev), fres.sr)
       IN  /\ dev' = F.dev
           /\ fres' = [fres EXCEPT !.fn = "halSpiFlashWriteSR", !.log = F.log]
    /\ UNCHANGED <<fd, props, nonFlashVars>>

\* a call of halSpiFlashReadSR
ReadSRCall ==
    /\ fres.fn \in {"none", "halSpiFlashWriteSR"}
    /\ LET F == halSpiFlashReadSR(fd, FlashCtx(dev))
       IN  /\ dev' = F.dev
           /\ fres' = [fres EXCEPT !.fn = IF fres.fn = "none"
                                          THEN "halSpiFlashReadSR"
                                          ELSE "halSpiFlashReadSR after WriteSR",
                                   !.ret = F.rx, !.log = F.log]
    /\ UNCHANGED <<fd, props, nonFlashVars>>

\* a call of halSpiFlashPrepareEraseProgram
PrepareEraseProgramCall ==
    /\ fres.fn = "none"
    /\ LET F == halSpiFlashPrepareEraseProgram(fd, FlashCtx(dev), fres.offset, fres.size)
       IN  /\ dev' = F.dev
           /\ fres' = [fres EXCEPT !.fn = "halSpiFlashPrepareEraseProgram",
                                   !.sr = DevSR(dev), !.log = F.log]
    /\ UNCHANGED <<fd, props, nonFlashVars>>

\* a call of halSpiFlashStatusCheck, and a second call on the device as the
\* first call left it; sr and num are the status registers before the first
\* and before the second call
StatusCheckCall ==
    /\ fres.fn \in {"none", "halSpiFlashStatusCheck"}
    /\ LET F == halSpiFlashStatusCheck(fd, FlashCtx(dev))
       IN  /\ dev' = F.dev
           /\ fres' = IF fres.fn = "none"
                      THEN [fres EXCEPT !.fn = "halSpiFlashStatusCheck",
                                        !.sr = DevSR(dev), !.log = F.log]
                      ELSE [fres EXCEPT !.fn = "halSpiFlashStatusCheck twice",
                                        !.num = DevSR(dev), !.log2 = F.log]
    /\ UNCHANGED <<fd, props, nonFlashVars>>

\* the lock bits of hal_spi_flash_defs.h: LB1 of the GD family in SR2, LB
\* of XTX, IRL0 of the function register of XMCB
GD_SR_LB1 == 2048
XTX_SR_LB == 1024
XMCB_FR_IRL0 == 16

\* a uint32_t no less than 2^31 is written v - 2^32: x > y for uint32_t x
\* and a small y
U32Gt(x, y) == x < 0 \/ x > y

\* the three address bytes of a command, most significant first
AddrBytes(address) ==
    <<(address \div 65536) % 256, (address \div 256) % 256, address % 256>>

\* prvSregRead48H, prvSregRead68H: the address and a dummy byte
prvSregRead(F, op, address) == prvCmdNoRx(F, op, AddrBytes(address) \o <<0>>)

\* prvSregProgram42H, prvSregProgram62H, prvSregErase44H, prvSregErase64H
prvSregAddr(F, op, address) == prvCmdNoRx(F, op, AddrBytes(address))

\* the result of a function of the driver that returns a bool
FlashRet(F, ret) == [F |-> F, ret |-> ret]

\* the types whose lock bit is LB1 << (num - 1)
LockGDFamily == {"GD", "WINBOND", "XMCC", "PUYA"}

\* halSpiFlashReadSecurityRegister: address + size is a uint32_t
halSpiFlashReadSecurityRegister(d, F, num, address, size) ==
    IF num < d.sreg_min_num \/ num > d.sreg_max_num THEN FlashRet(F, FALSE)
    ELSE IF U32Gt(address + size, d.sreg_block_size) THEN FlashRet(F, FALSE)
    ELSE IF d.type \in GDFamily
    THEN FlashRet(prvSregRead(F, 72, BitOr(num * 4096, address)), TRUE)
    ELSE IF d.type = "XMCB"
    THEN FlashRet(prvSregRead(F, 104, BitOr(num * 4096, address)), TRUE)
    ELSE FlashRet(F, FALSE)

\* halSpiFlashProgramSecurityRegister
halSpiFlashProgramSecurityRegister(d, F, num, address, size) ==
    IF num < d.sreg_min_num \/ num > d.sreg_max_num THEN FlashRet(F, FALSE)
    ELSE IF U32Gt(address + size, d.sreg_block_size) THEN FlashRet(F, FALSE)
    ELSE IF d.type \in GDFamily
    THEN FlashRet(prvSregAddr(F, 66, BitOr(num * 4096, address)), TRUE)
    ELSE IF d.type = "XMCB"
    THEN FlashRet(prvSregAddr(F, 98, BitOr(num * 4096, address)), TRUE)
    ELSE FlashRet(F, FALSE)

\* halSpiFlashEraseSecurityRegister
halSpiFlashEraseSecurityRegister(d, F, num) ==
    IF num < d.sreg_min_num \/ num > d.sreg_max_num THEN FlashRet(F, FALSE)
    ELSE IF d.sreg_block_size = 0 THEN FlashRet(F, FALSE)
    ELSE IF d.type \in GDFamily THEN FlashRet(prvSregAddr(F, 68, num * 4096), TRUE)
    ELSE IF d.type = "XMCB" THEN FlashRet(prvSregAddr(F, 100, num * 4096), TRUE)
    ELSE FlashRet(F, FALSE)

\* prvSregLockGD: sr12 is a uint16_t
prvSregLockGD(d, F, num) ==
    LET r == halSpiFlashReadSR(d, F)
    IN  halSpiFlashWriteSR(d, r, BitOr(r.rx, (GD_SR_LB1 * 2 ^ (num - 1)) % 65536))

\* prvSregLockXTX
prvSregLockXTX(d, F, num) ==
    LET r == halSpiFlashReadSR(d, F)
    IN  halSpiFlashWriteSR(d, r, BitOr(r.rx, XTX_SR_LB))

\* prvSregLockXMCB: RDFR is 48h, WRFR 42h; fr is a uint8_t
prvSregLockXMCB(d, F, num) ==
    LET r == prvCmdOnlyReadback(F, 72)
        fr == BitOr(r.rx, (XMCB_FR_IRL0 * 2 ^ num) % 256)
    IN  halSpiFlashWaitWipFinish(prvCmdNoRx(halSpiFlashWriteEnable(r), 66, <<fr>>))

\* halSpiFlashLockSecurityRegister
halSpiFlashLockSecurityRegister(d, F, num) ==
    IF num < d.sreg_min_num \/ num > d.sreg_max_num THEN FlashRet(F, FALSE)
    ELSE IF d.type \in LockGDFamily THEN FlashRet(prvSregLockGD(d, F, num), TRUE)
    ELSE IF d.type = "XTX" THEN FlashRet(prvSregLockXTX(d, F, num), TRUE)
    ELSE IF d.type = "XMCB" THEN FlashRet(prvSregLockXMCB(d, F, num), TRUE)
    ELSE FlashRet(F, FALSE)

\* halSpiFlashIsSecurityRegisterLocked, with prvSregIsLockedGD,
\* prvSregIsLockedXTX and prvSregIsLockedXMCB
halSpiFlashIsSecurityRegisterLocked(d, F, num) ==
    IF num < d.sreg_min_num \/ num > d.sreg_max_num THEN FlashRet(F, FALSE)
    ELSE IF d.type \in LockGDFamily
    THEN LET r == halSpiFlashReadSR(d, F)
         IN  FlashRet(r, BitAnd(r.rx, GD_SR_LB1 * 2 ^ (num - 1)) # 0)
    ELSE IF d.type = "XTX"
    THEN LET r == halSpiFlashReadSR(d, F)
         IN  FlashRet(r, BitAnd(r.rx, XTX_SR_LB) # 0)
    ELSE IF d.type = "XMCB"
    THEN LET r == prvCmdOnlyReadback(F, 72)
         IN  FlashRet(r, BitAnd(r.rx, XMCB_FR_IRL0 * 2 ^ num) # 0)
    ELSE FlashRet(F, FALSE)

\* a call of one of the security register functions
SregReturn(fn, r, num, address, size) ==
    /\ dev' = r.F.dev
    /\ fres' = [fres EXCEPT !.fn = fn, !.num = num, !.offset = address,
                            !.size = size, !.ret = r.ret, !.log = r.F.log]
    /\ UNCHANGED <<fd, props, nonFlashVars>>

ReadSecurityRegisterCall(num, address, size) ==
    /\ fres.fn = "none"
    /\ SregReturn("halSpiFlashReadSecurityRegister",
                  halSpiFlashReadSecurityRegister(fd, FlashCtx(dev), num, address, size),
                  num, address, size)

ProgramSecurityRegisterCall(num, address, size) ==
    /\ fres.fn = "none"
    /\ SregReturn("halSpiFlashProgramSecurityRegister",
                  halSpiFlashProgramSecurityRegister(fd, FlashCtx(dev), num, address, size),
                  num, address, size)

EraseSecurityRegisterCall(num) ==
    /\ fres.fn = "none"
    /\ SregReturn("halSpiFlashEraseSecurityRegister",
                  halSpiFlashEraseSecurityRegister(fd, FlashCtx(dev), num), num, 0, 0)

LockSecurityRegisterCall(num) ==
    /\ fres.fn = "none"
    /\ SregReturn("halSpiFlashLockSecurityRegister",
                  halSpiFlashLockSecurityRegister(fd, FlashCtx(dev), num), num, 0, 0)

IsSecurityRegisterLockedCall(num) ==
    /\ fres.fn \in {"none", "halSpiFlashLockSecurityRegister"}
    /\ SregReturn(IF fres.fn = "none" THEN "halSpiFlashIsSecurityRegisterLocked"
                  ELSE "halSpiFlashIsSecurityRegisterLocked after Lock",
                  halSpiFlashIsSecurityRegisterLocked(fd, FlashCtx(dev), num), num, 0, 0)

-----------------------------------------------------------------------------
(* Initial state and specifications *)

InitPipe ==
    /\ pipe = PipeInit
    /\ pth = [t \in PThreads |-> PIdle]
    /\ wrlog = <<>>
    /\ rdlog = <<>>
    /\ pcb = PcbNone

InitFifo ==
    /\ fifo = FifoInit
    /\ fcall = FCall("init", 0, 0, <<>>, 0, FifoSize)
    /\ putlog = <<>>
    /\ getlog = <<>>

\* two queues and two work items, none queued; callbacks are not logged
InitWork ==
    /\ wq = [q \in Queues |-> WqInit]
    /\ work = [w \in 1..2 |-> WorkInit]
    /\ wth = [q \in Queues |-> WthInit]
    /\ wtr = WtrIdle
    /\ evlog = <<>>
    /\ logcap = 0

\* one queue and two work items, none queued; callbacks are not logged
WaitQueueInit ==
    /\ wq = [q \in {"q1"} |-> WqInit]
    /\ work = [w \in 1..2 |-> WorkInit]
    /\ wth = [q \in {"q1"} |-> WthInit]
    /\ wtr = WtrIdle
    /\ evlog = <<>>
    /\ logcap = 0

\* the teardown scenario: one queue and two work items; the first callbacks
\* and the teardown are logged
DeleteQueueInit ==
    /\ wq = [q \in {"q1"} |-> WqInit]
    /\ work = [w \in 1..2 |-> WorkInit]
    /\ wth = [q \in {"q1"} |-> WthInit]
    /\ wtr = WtrIdle
    /\ evlog = <<>>
    /\ logcap = MaxLog

\* the ordering scenario: one queue, NItems work items, every callback
\* logged, with room for one callback too many
OrderQueueInit ==
    /\ wq = [q \in {"q1"} |-> WqInit]
    /\ work = [w \in 1..NItems |-> WorkInit]
    /\ wth = [q \in {"q1"} |-> WthInit]
    /\ wtr = WtrIdle
    /\ evlog = <<>>
    /\ logcap = 2 * NItems + 1

InitNotify ==
    /\ notify = NotifyInit
    /\ mbox = <<>>
    /\ dsp = DspIdle
    /\ trg = [pc |-> "idle"]
    /\ panic = FALSE
    /\ trigs = 0
    /\ batches = 0
    /\ ncb = 0
    /\ pst = [t \in NPosters \cup NTargets |-> PstIdle]
    /\ snd = SndInit
    /\ cblog = [posted |-> <<>>, ran |-> <<>>]

\* the flash driver before any call, on a GD part of 8 MiB
InitFlash ==
    /\ fd = FlashDesc(Mid(200, 64, 23), 8 * MiB, "GD", "GD")
    /\ dev = Device(Mid(200, 64, 23), 0, 0)
    /\ fres = FCallNone(0, 1)
    /\ props = <<>>

InitCrit == crit = [t \in Threads |-> 0]

Init ==
    /\ InitCrit
    /\ InitPipe
    /\ InitFifo
    /\ InitWork
    /\ InitNotify
    /\ InitFlash

\* the timeouts of the calls of NextPipe: a call with OSI_WAIT_FOREVER takes
\* the steps of a call with a finite timeout that does not expire, and
\* NextStop has the calls that wait for ever
PipeTimeouts == {"zero", "finite"}

NextPipe ==
    \/ \E t \in PReaders, n \in 1..MaxReq : osiPipeRead(t, n)
    \/ \E t \in PReaders : ReadPost(t)
    \/ \E t \in PReaders, n \in 1..MaxReq, tmo \in PipeTimeouts : osiPipeReadAll(t, n, tmo)
    \/ \E t \in PReaders : ReadAllRead(t)
    \/ \E t \in PReaders : ReadAllPost(t)
    \/ \E t \in PReaders : ReadAllCheck(t)
    \/ \E t \in PReaders : ReadAllAcquire(t)
    \/ \E t \in PReaders : ReadAllTimeout(t)
    \/ \E t \in PWriters, n \in 1..MaxReq : osiPipeWrite(t, n)
    \/ \E t \in PWriters : WritePost(t)
    \/ \E t \in PWriters, n \in 1..MaxReq, tmo \in PipeTimeouts : osiPipeWriteAll(t, n, tmo)
    \/ \E t \in PWriters : WriteAllWrite(t)
    \/ \E t \in PWriters : WriteAllPost(t)
    \/ \E t \in PWriters : WriteAllAcquire(t)
    \/ \E t \in PWriters : WriteAllTimeout(t)
    \/ \E t \in PControl : osiPipeStop(t)
    \/ \E t \in PControl : osiPipeSetEof(t)
    \/ \E t \in PControl : osiPipeReset(t)
    \/ \E t \in PControl : osiPipeDataEnd(t)

SpecPipe == Init /\ [][NextPipe]_vars

\* the steps thread t takes on its own once it is inside a call of
\* osiPipeReadAll, osiPipeWriteAll, osiPipeWaitReadAvail or
\* osiPipeWaitWriteAvail, other than taking a semaphore
PipeStep(t) ==
    \/ ReadAllRead(t) \/ ReadAllPost(t) \/ ReadAllCheck(t)
    \/ WriteAllWrite(t) \/ WriteAllPost(t)
    \/ WaitReadRunning(t) \/ WaitReadAvail(t) \/ WaitReadEof(t)
    \/ WaitWriteRunning(t) \/ WaitWriteAvail(t)

\* thread t is given the semaphore it waits for
PipeAcquire(t) ==
    \/ ReadAllAcquire(t) \/ WriteAllAcquire(t)
    \/ WaitReadAcquire(t) \/ WaitWriteAcquire(t)

\* a thread in osiPipeReadAll, a second in osiPipeWaitReadAvail and a writer,
\* all waiting without timeout on one pipe, and a thread that stops the pipe
\* or sets its end of file
NextStop ==
    \/ \E t \in PReaders, n \in 1..MaxReq : osiPipeReadAll(t, n, "forever")
    \/ \E t \in PWriters, n \in 1..MaxReq : osiPipeWriteAll(t, n, "forever")
    \/ \E t \in PReaders2 : osiPipeWaitReadAvail(t, "forever")
    \/ \E t \in PWriters : osiPipeWaitWriteAvail(t, "forever")
    \/ \E t \in PThreads : PipeStep(t)
    \/ \E t \in PThreads : PipeAcquire(t)
    \/ \E t \in PControl : osiPipeStop(t)
    \/ \E t \in PControl : osiPipeSetEof(t)

\* the scheduler runs every thread that can run; a semaphore that is
\* released again and again is eventually given to a thread that waits for it
FairStop ==
    \A t \in PThreads : WF_vars(PipeStep(t)) /\ SF_vars(PipeAcquire(t))

SpecStop == Init /\ [][NextStop]_vars /\ FairStop

\* a reader and a writer that wait for data and for space with any timeout
\* and then read and write, and a thread that stops and resets the pipe and
\* sets its end of file
NextAvail ==
    \/ \E t \in PReaders, tmo \in Timeouts : osiPipeWaitReadAvail(t, tmo)
    \/ \E t \in PReaders : WaitReadRunning(t)
    \/ \E t \in PReaders : WaitReadAvail(t)
    \/ \E t \in PReaders : WaitReadEof(t)
    \/ \E t \in PReaders : WaitReadAcquire(t)
    \/ \E t \in PReaders : WaitReadTimeout(t)
    \/ \E t \in PWriters, tmo \in Timeouts : osiPipeWaitWriteAvail(t, tmo)
    \/ \E t \in PWriters : WaitWriteRunning(t)
    \/ \E t \in PWriters : WaitWriteAvail(t)
    \/ \E t \in PWriters : WaitWriteAcquire(t)
    \/ \E t \in PWriters : WaitWriteTimeout(t)
    \/ \E t \in PReaders, n \in 1..MaxReq : osiPipeRead(t, n)
    \/ \E t \in PReaders : ReadPost(t)
    \/ \E t \in PWriters, n \in 1..MaxReq : osiPipeWrite(t, n)
    \/ \E t \in PWriters : WritePost(t)
    \/ \E t \in PControl : osiPipeStop(t)
    \/ \E t \in PControl : osiPipeSetEof(t)
    \/ \E t \in PControl : osiPipeReset(t)

SpecAvail == Init /\ [][NextAvail]_vars

\* the registrations of the callback scenario: a callback or none, for one
\* of the two events
CbMasks == {{"RX_ARRIVED"}, {"TX_COMPLETE"}}

CbFuncs == {"NULL", "cb"}

\* a reader, a writer, and a thread that registers callbacks between any
\* two of their steps
NextCb ==
    \/ \E t \in PReaders, n \in 1..MaxReq : osiPipeRead(t, n)
    \/ \E t \in PReaders : ReadPost(t)
    \/ \E t \in PWriters, n \in 1..MaxReq : osiPipeWrite(t, n)
    \/ \E t \in PWriters : WritePost(t)
    \/ \E t \in PControl, mask \in CbMasks, cb \in CbFuncs :
           osiPipeSetWriterCallback(t, mask, cb)
    \/ \E t \in PControl, mask \in CbMasks, cb \in CbFuncs :
           osiPipeSetReaderCallback(t, mask, cb)

SpecCb == Init /\ [][NextCb]_vars

\* every operation on a pipe that is stopped and reset again and again: the
\* reader and the writer read, write, and wait for data and for space, with
\* and without waiting for all bytes, while a third thread stops and resets
\* the pipe and sets its end of file
NextRestart ==
    \/ \E t \in PReaders, n \in 1..MaxReq : osiPipeRead(t, n)
    \/ \E t \in PReaders : ReadPost(t)
    \/ \E t \in PReaders, n \in 1..MaxReq, tmo \in PipeTimeouts : osiPipeReadAll(t, n, tmo)
    \/ \E t \in PReaders : ReadAllRead(t)
    \/ \E t \in PReaders : ReadAllPost(t)
    \/ \E t \in PReaders : ReadAllCheck(t)
    \/ \E t \in PReaders : ReadAllAcquire(t)
    \/ \E t \in PReaders : ReadAllTimeout(t)
    \/ \E t \in PWriters, n \in 1..MaxReq : osiPipeWrite(t, n)
    \/ \E t \in PWriters : WritePost(t)
    \/ \E t \in PWriters, n \in 1..MaxReq, tmo \in PipeTimeouts : osiPipeWriteAll(t, n, tmo)
    \/ \E t \in PWriters : WriteAllWrite(t)
    \/ \E t \in PWriters : WriteAllPost(t)
    \/ \E t \in PWriters : WriteAllAcquire(t)
    \/ \E t \in PWriters : WriteAllTimeout(t)
    \/ \E t \in PReaders, tmo \in PipeTimeouts : osiPipeWaitReadAvail(t, tmo)
    \/ \E t \in PReaders : WaitReadRunning(t)
    \/ \E t \in PReaders : WaitReadAvail(t)
    \/ \E t \in PReaders : WaitReadEof(t)
    \/ \E t \in PReaders : WaitReadAcquire(t)
    \/ \E t \in PReaders : WaitReadTimeout(t)
    \/ \E t \in PWriters, tmo \in PipeTimeouts : osiPipeWaitWriteAvail(t, tmo)
    \/ \E t \in PWriters : WaitWriteRunning(t)
    \/ \E t \in PWriters : WaitWriteAvail(t)
    \/ \E t \in PWriters : WaitWriteAcquire(t)
    \/ \E t \in PWriters : WaitWriteTimeout(t)
    \/ \E t \in PControl : osiPipeStop(t)
    \/ \E t \in PControl : osiPipeSetEof(t)
    \/ \E t \in PControl : osiPipeReset(t)

SpecRestart == Init /\ [][NextRestart]_vars

\* the sizes of the pipes whose counters wrap: one that divides 2^CounterBits
\* and one that does not
WrapSizes == {2, 3}

\* a pipe of one of these sizes, empty, after so many bytes have gone through
\* it that rd and wr stand up to MaxStream bytes before their wrap
InitWrapPipe ==
    /\ \E size \in WrapSizes, k \in 1..MaxStream :
           pipe = [PipeInit EXCEPT !.size = size,
                                   !.rd = CounterMod - k,
                                   !.wr = CounterMod - k,
                                   !.data = [i \in 0..(size - 1) |-> 0]]
    /\ pth = [t \in PThreads |-> PIdle]
    /\ wrlog = <<>>
    /\ rdlog = <<>>
    /\ pcb = PcbNone

InitWrap ==
    /\ InitCrit
    /\ InitWrapPipe
    /\ InitFifo
    /\ InitWork
    /\ InitNotify
    /\ InitFlash

\* a reader and a writer on the pipe while its counters wrap
NextWrap ==
    \/ \E t \in PReaders, n \in 1..MaxReq : osiPipeRead(t, n)
    \/ \E t \in PReaders : ReadPost(t)
    \/ \E t \in PWriters, n \in 1..MaxReq : osiPipeWrite(t, n)
    \/ \E t \in PWriters : WritePost(t)

SpecWrap == InitWrap /\ [][NextWrap]_vars

NextFifo ==
    \/ \E n \in 1..MaxFifoReq : osiFifoPut(n)
    \/ \E n \in 1..MaxFifoReq : osiFifoGet(n)
    \/ \E n \in 1..MaxFifoReq : osiFifoPeek(n)
    \/ osiFifoReset

SpecFifo == Init /\ [][NextFifo]_vars

\* the byte values of the search scenario, and a value that is never put
SearchBytes == {1, 2}

\* buffers of one or two bytes of SearchBytes
SearchBufs == UNION {[1..n -> SearchBytes] : n \in 1..2}

\* the FIFO with osiFifoSearch: puts of repeating byte values, so that a
\* byte can occur more than once among the unread bytes
NextSearch ==
    \/ \E buf \in SearchBufs : osiFifoPutBuf(buf)
    \/ \E n \in 1..MaxFifoReq : osiFifoGet(n)
    \/ \E byte \in SearchBytes \cup {3}, keep \in BOOLEAN : osiFifoSearch(byte, keep)
    \/ osiFifoReset

SpecSearch == Init /\ [][NextSearch]_vars

NextWork ==
    \/ \E t \in WClients, w \in DOMAIN work, q \in DOMAIN wq : osiWorkEnqueue(t, w, q)
    \/ \E t \in WClients, w \in DOMAIN work, q \in DOMAIN wq : osiWorkEnqueueLast(t, w, q)
    \/ \E t \in WClients, w \in DOMAIN work : osiWorkCancel(t, w)
    \/ \E t \in WClients, w \in DOMAIN work : osiWorkDelete(t, w)
    \/ \E t \in WClients, q \in DOMAIN wq : osiWorkQueueDelete(t, q)
    \/ \E q \in DOMAIN wq : WorkerLoop(q)
    \/ \E q \in DOMAIN wq : WorkerTake(q)
    \/ \E q \in DOMAIN wq : WorkerWait(q)
    \/ \E q \in DOMAIN wq : WorkerRun(q)
    \/ \E q \in DOMAIN wq : WorkerComplete(q)
    \/ \E q \in DOMAIN wq : WorkerRelease(q)
    \/ \E q \in DOMAIN wq : WorkerTeardown(q)
    \/ \E q \in DOMAIN wq : WorkerFree(q)

SpecWork == Init /\ [][NextWork]_vars

\* the steps of the worker thread of queue q
WorkerStep(q) ==
    \/ WorkerLoop(q)
    \/ WorkerTake(q)
    \/ WorkerWait(q)
    \/ WorkerRun(q)
    \/ WorkerComplete(q)
    \/ WorkerRelease(q)
    \/ WorkerTeardown(q)
    \/ WorkerFree(q)

InitDelete ==
    /\ InitCrit
    /\ InitPipe
    /\ InitFifo
    /\ DeleteQueueInit
    /\ InitNotify
    /\ InitFlash

\* the scheduler runs a worker thread that is ready
FairDelete == WF_vars(WorkerStep("q1"))

\* one queue with its worker under a fair scheduler, and a client that
\* enqueues, cancels and deletes items and deletes the queue
SpecDelete == InitDelete /\ [][NextWork]_vars /\ FairDelete

\* the descriptors of the write-protect scenario: GD parts of every capacity
\* that has a table and of one that has none, XMCA parts of three
\* capacities, and a part without write protection
WpDescs ==
    {FlashDesc(Mid(200, 64, b), 2 ^ b, "GD", "GD") : b \in 20..25}
      \cup {FlashDesc(Mid(32, 56, b), 2 ^ b, "XMCA", "XMCA") : b \in {20, 22, 24}}
      \cup {FlashDesc(Mid(133, 96, 22), 4 * MiB, "PUYA", "NONE")}

\* the write-protect table halSpiFlashWpRange uses for descriptor d
WpTableOf(d) ==
    IF d.wp_type = "XMCA" THEN gXmcaWpMap
    ELSE IF d.wp_type # "GD" THEN <<>>
    ELSE IF d.capacity = 1 * MiB THEN gGD8MWpMap
    ELSE IF d.capacity = 2 * MiB THEN gGD16MWpMap
    ELSE IF d.capacity = 4 * MiB THEN gGD32MWpMap
    ELSE IF d.capacity = 8 * MiB THEN gGD64MWpMap
    ELSE IF d.capacity = 16 * MiB THEN gGD128MWpMap
    ELSE <<>>

\* the bytes of one unit of the table of descriptor d
WpUnitOf(d) ==
    IF d.wp_type = "XMCA" THEN 2 ^ (MID_CAPBITS(d.mid) - 7) ELSE SIZE_4K

\* the offsets of the scenario: around every threshold of the table, the
\* half of the capacity plus one, and one offset far above the capacity
WpOffsets(d) ==
    {o \in {WpTableOf(d)[i].offset * WpUnitOf(d) + k :
                i \in 1..Len(WpTableOf(d)), k \in (0 - WpDelta)..WpDelta} : o >= 0}
      \cup {0, d.capacity \div 2 + 1, 64 * MiB}

InitWp ==
    /\ InitCrit
    /\ InitPipe
    /\ InitFifo
    /\ InitWork
    /\ InitNotify
    /\ fd \in WpDescs
    /\ dev = Device(fd.mid, 0, 0)
    /\ \E o \in WpOffsets(fd) : fres = FCallNone(o, 1)
    /\ props = <<>>

NextWp == WpRangeCall

\* halSpiFlashWpRange on every descriptor and offset of the scenario
SpecWp == InitWp /\ [][NextWp]_vars

\* the descriptor before halSpiFlashInit: nothing but hwp is set
BlankDesc == FlashDesc(0, 0, "NONE", "NONE")

\* entries of a property table: a GD part C8 40 17, the entries for every
\* GD part with memory type 40 and for every GD part, a second entry for GD
\* parts with memory type 40, a GD part C8 40 18, a Winbond part, an XMCA
\* part and an XMCB part
PropGD17 ==
    [FlashDesc(Mid(200, 64, 23), 8 * MiB, "GD", "GD") EXCEPT
        !.has_sr2 = TRUE, !.volatile_sr_en = TRUE, !.sreg_block_size = 1024,
        !.sreg_min_num = 1, !.sreg_max_num = 3, !.has_sus1 = TRUE, !.has_sus2 = TRUE]

PropGD40 ==
    [FlashDesc(Mid(200, 64, 0), 4 * MiB, "GD", "GD") EXCEPT
        !.has_sr2 = TRUE, !.write_sr12 = TRUE, !.sreg_block_size = 512,
        !.sreg_min_num = 1, !.sreg_max_num = 3, !.has_sus1 = TRUE]

PropGD40b == [PropGD40 EXCEPT !.sreg_block_size = 256, !.wp_type = "NONE"]

PropGD == [FlashDesc(Mid(200, 0, 0), 1 * MiB, "GD", "NONE") EXCEPT !.has_sr2 = TRUE]

PropGD18 == [PropGD17 EXCEPT !.mid = Mid(200, 64, 24), !.capacity = 16 * MiB]

PropWinbond17 ==
    [FlashDesc(Mid(239, 64, 23), 8 * MiB, "WINBOND", "GD") EXCEPT
        !.has_sr2 = TRUE, !.sreg_block_size = 256, !.sreg_min_num = 1,
        !.sreg_max_num = 3]

PropXmca == FlashDesc(Mid(32, 56, 22), 4 * MiB, "XMCA", "XMCA")

PropXmcb ==
    [FlashDesc(Mid(32, 80, 0), 4 * MiB, "XMCB", "NONE") EXCEPT
        !.sreg_block_size = 1024, !.sreg_max_num = 3]

\* the property tables of the scenario (gSpiFlashProps is the content of
\* hal_spi_flash_prop.h)
PropTables ==
    { <<PropGD17, PropWinbond17>>,
      <<PropGD17, PropGD40, PropGD, PropXmca>>,
      <<PropGD, PropGD40, PropGD18, PropGD17, PropXmcb>>,
      <<PropGD40, PropGD40b, PropXmca, PropXmcb>> }

\* the IDs the device answers to RDID: C8 40 17, C8 40 18, C8 60 18,
\* AA BB CC, EF 40 17, 20 38 16, 20 50 16
InitIds ==
    { Mid(200, 64, 23), Mid(200, 64, 24), Mid(200, 96, 24), Mid(170, 187, 204),
      Mid(239, 64, 23), Mid(32, 56, 22), Mid(32, 80, 22) }

\* the bits of SR2:SR1 a status write changes: all but WIP, WEL and the
\* suspend flags
SrWritable == 65535 - STREG_WIP - STREG_WEL - GD_SR_SUS1 - GD_SR_SUS2

\* the device when halSpiFlashInit is called: erased status registers, QE
\* set, QE and everything protected, or a write enable left behind
InitDevices ==
    {Device(id, sr, SrWritable) : id \in InitIds, sr \in {0, GD_SR_QE, GD_SR_QE + 64}}
      \cup {[Device(id, GD_SR_QE, SrWritable) EXCEPT !.wel = TRUE] : id \in InitIds}

InitInit ==
    /\ InitCrit
    /\ InitPipe
    /\ InitFifo
    /\ InitWork
    /\ InitNotify
    /\ fd = BlankDesc
    /\ dev \in InitDevices
    /\ fres = FCallNone(0, 0)
    /\ props \in PropTables

NextInit == InitCall

\* halSpiFlashInit on every table and device of the scenario
SpecInit == InitInit /\ [][NextInit]_vars

\* the descriptors of the status register scenario: no SR2, SR2 written
\* with SR1 by 01h, SR2 written by 31h
SrDescs ==
    { FlashDesc(Mid(133, 96, 22), 4 * MiB, "PUYA", "NONE"),
      [FlashDesc(Mid(200, 64, 23), 8 * MiB, "GD", "GD") EXCEPT
          !.has_sr2 = TRUE, !.write_sr12 = TRUE],
      [FlashDesc(Mid(239, 64, 23), 8 * MiB, "WINBOND", "GD") EXCEPT !.has_sr2 = TRUE] }

\* the values written: every single bit, no bit, every bit, every nibble
\* pattern, each byte alone and mixed patterns
SrValues ==
    {2 ^ i : i \in 0..15} \cup {4369 * k : k \in 0..15} \cup {255, 65280, 23130, 42405, 4660}

\* the bits the device of descriptor d stores: those of SR1 alone for a
\* part without SR2, those of both registers, or fewer of them
SrMasks(d) ==
    IF d.has_sr2 THEN {SrWritable, SrWritable - 16384 - 128} ELSE {252, 60}

InitSr ==
    /\ InitCrit
    /\ InitPipe
    /\ InitFifo
    /\ InitWork
    /\ InitNotify
    /\ fd \in SrDescs
    /\ \E wmask \in SrMasks(fd), old \in {0, 23130} :
           dev = [Device(fd.mid, BitAnd(old, wmask), wmask) EXCEPT !.sr12 = fd.write_sr12]
    /\ \E sr \in SrValues : fres = [FCallNone(0, 0) EXCEPT !.sr = sr]
    /\ props = <<>>

NextSr ==
    \/ WriteSRCall
    \/ ReadSRCall

\* halSpiFlashWriteSR and halSpiFlashReadSR on every descriptor, device and
\* value of the scenario
SpecSr == InitSr /\ [][NextSr]_vars

\* the descriptors of the security register scenario: a GD part with
\* registers 1..3 of 1024 bytes, an XMCB part with registers 0..3, an XTX
\* part with register 0, an XMCA part, and a GD part whose registers have
\* no bytes
SregDescs ==
    { PropGD17, PropXmcb, PropXmca,
      [FlashDesc(Mid(11, 64, 22), 4 * MiB, "XTX", "NONE") EXCEPT
          !.has_sr2 = TRUE, !.sreg_block_size = 1024],
      [FlashDesc(Mid(200, 64, 20), 1 * MiB, "GD", "GD") EXCEPT
          !.has_sr2 = TRUE, !.sreg_min_num = 1, !.sreg_max_num = 3] }

SregNums == 0..4

SregAddresses == {0, 1, 1020, 1023, 1024}

\* sizes from nothing to more than a register, and the uint32_t values
\* 2^32 - 1 and 2^32 - 1020
SregSizes == {0, 1, 4, 1024, 1025, 0 - 1, 0 - 1020}

InitSreg ==
    /\ InitCrit
    /\ InitPipe
    /\ InitFifo
    /\ InitWork
    /\ InitNotify
    /\ fd \in SregDescs
    /\ dev = [Device(fd.mid, 0, SrWritable) EXCEPT !.sr12 = fd.write_sr12]
    /\ fres = FCallNone(0, 0)
    /\ props = <<>>

NextSreg ==
    \/ \E num \in SregNums, address \in SregAddresses, size \in SregSizes :
           ReadSecurityRegisterCall(num, address, size)
    \/ \E num \in SregNums, address \in SregAddresses, size \in SregSizes :
           ProgramSecurityRegisterCall(num, address, size)
    \/ \E num \in SregNums : EraseSecurityRegisterCall(num)
    \/ \E num \in SregNums : LockSecurityRegisterCall(num)
    \/ \E num \in SregNums : IsSecurityRegisterLockedCall(num)

\* the security register functions on every descriptor and argument of the
\* scenario
SpecSreg == InitSreg /\ [][NextSreg]_vars

\* the descriptors of the program/erase scenario: the descriptors of the
\* write-protect scenario with SR2 for the GD parts, each with and without
\* volatile_sr_en and, with SR2, with and without write_sr12
PrepDescs ==
    {[d EXCEPT !.volatile_sr_en = v, !.has_sr2 = (d.type = "GD"),
               !.write_sr12 = (w /\ d.type = "GD")] :
        d \in WpDescs, v \in BOOLEAN, w \in BOOLEAN}

\* the status registers before the call: QE with everything protected (as
\* the status check and halSpiFlashFinishEraseProgram leave them), QE with
\* the lowest 4 KiB protected, nothing set
PrepSrs(d) ==
    IF d.type = "XMCA" THEN {WpBits["XMCA_WP_ALL"], WpBits["XMCA_WP_1_128"], 0}
    ELSE {GD_SR_QE + WpBits["GD_WP32M_ALL"], GD_SR_QE + WpBits["GD_WP32M_4K"], 0}

\* the offsets of the scenario: at every threshold of the table and
\* WpDelta below it, the last byte of the part and the first byte
PrepOffsets(d) ==
    {o \in {WpTableOf(d)[i].offset * WpUnitOf(d) - k :
                i \in 1..Len(WpTableOf(d)), k \in 0..WpDelta} : o >= 0 /\ o < d.capacity}
      \cup {0, d.capacity - 1}

InitPrep ==
    /\ InitCrit
    /\ InitPipe
    /\ InitFifo
    /\ InitWork
    /\ InitNotify
    /\ fd \in PrepDescs
    /\ \E sr \in PrepSrs(fd), vfail \in 0..1 :
           dev = [Device(fd.mid, sr, SrWritable) EXCEPT
                      !.sr12 = fd.write_sr12, !.vfail = vfail]
    /\ \E o \in PrepOffsets(fd) : fres = FCallNone(o, 1)
    /\ props = <<>>

NextPrep == PrepareEraseProgramCall

\* halSpiFlashPrepareEraseProgram on every descriptor, device and offset of
\* the scenario
SpecPrep == InitPrep /\ [][NextPrep]_vars

\* the descriptors of the status check scenario: every type of the GD
\* family, with and without GD write protection, three capacities (one for
\* each WP mask), with and without the suspend flags, with SR2 written by
\* 01h or by 31h, and without SR2
CheckDescs ==
    {[FlashDesc(Mid(200, 64, b), 2 ^ b, type, wp) EXCEPT
          !.has_sr2 = s2, !.write_sr12 = (s2 /\ w12), !.has_sus1 = s1, !.has_sus2 = s1 /\ s2] :
        b \in {20, 21, 23}, type \in GDFamily, wp \in {"GD", "NONE"},
        s2 \in BOOLEAN, w12 \in BOOLEAN, s1 \in BOOLEAN}

\* the stored status bits before the first call: erased, as the status check
\* leaves them with and without GD write protection, a part of the array
\* protected, an operation suspended
CheckSrs ==
    {0, GD_SR_QE, GD_SR_QE + WpBits["GD_WP32M_ALL"], WpBits["GD_WP32M_1_2"],
     GD_SR_QE + GD_SR_SUS1, GD_SR_QE + WpBits["GD_WP32M_ALL"] + GD_SR_SUS2}

\* the bits a status write changes: all of SrWritable, or all but QE (a part
\* whose QE bit is fixed)
CheckMasks == {SrWritable, SrWritable - GD_SR_QE}

InitCheck ==
    /\ InitCrit
    /\ InitPipe
    /\ InitFifo
    /\ InitWork
    /\ InitNotify
    /\ fd \in CheckDescs
    /\ \E sr \in CheckSrs, wmask \in CheckMasks, wel \in BOOLEAN, busy \in 0..1 :
           dev = [Device(fd.mid, sr, wmask) EXCEPT
                      !.sr12 = fd.write_sr12, !.wel = wel, !.busy = busy]
    /\ fres = FCallNone(0, 0)
    /\ props = <<>>

NextCheck == StatusCheckCall

\* halSpiFlashStatusCheck twice in a row on every descriptor and device of
\* the scenario
SpecCheck == InitCheck /\ [][NextCheck]_vars

NextWait ==
    \/ \E t \in WClients, w \in DOMAIN work, q \in DOMAIN wq : osiWorkEnqueue(t, w, q)
    \/ \E t \in WClients, w \in DOMAIN work, q \in DOMAIN wq : osiWorkEnqueueLast(t, w, q)
    \/ \E t \in WClients, w \in DOMAIN work : osiWorkCancel(t, w)
    \/ \E t \in WClients, w \in DOMAIN work : osiWorkDelete(t, w)
    \/ \E t \in WClients, q \in DOMAIN wq : osiWorkQueueDelete(t, q)
    \/ \E q \in DOMAIN wq : WorkerLoop(q)
    \/ \E q \in DOMAIN wq : WorkerTake(q)
    \/ \E q \in DOMAIN wq : WorkerWait(q)
    \/ \E q \in DOMAIN wq : WorkerRun(q)
    \/ \E q \in DOMAIN wq : WorkerComplete(q)
    \/ \E q \in DOMAIN wq : WorkerRelease(q)
    \/ \E q \in DOMAIN wq : WorkerTeardown(q)
    \/ \E q \in DOMAIN wq : WorkerFree(q)
    \/ \E t \in WWaiters, w \in DOMAIN work, tmo \in Timeouts : osiWorkWaitFinish(t, w, tmo)
    \/ \E t \in WWaiters : WaitFinishWake(t)
    \/ \E t \in WWaiters : WaitFinishTimeout(t)

InitWait ==
    /\ InitCrit
    /\ InitPipe
    /\ InitFifo
    /\ WaitQueueInit
    /\ InitNotify
    /\ InitFlash

SpecWait == InitWait /\ [][NextWait]_vars

\* item w has been handed to osiWorkEnqueue: it is queued, or in the hands
\* of the worker, or its run callback is logged
Enqueued(w) ==
    \/ work[w].wq # NULL
    \/ \E q \in DOMAIN wth : wth[q].work = w
    \/ \E k \in 1..Len(evlog) : evlog[k] = <<"run", w>>

\* the client enqueues the items 1, 2, .. NItems in this order, each once
EnqueueInOrder(t) ==
    \E w \in DOMAIN work :
        /\ ~Enqueued(w)
        /\ \A v \in 1..(w - 1) : Enqueued(v)
        /\ osiWorkEnqueue(t, w, "q1")

\* osiWorkWaitFinish on the last item, called after its complete callback
WaitFinishLast(t) ==
    \E tmo \in Timeouts :
        /\ Len(evlog) = 2 * NItems
        /\ wtr.ret = "none"
        /\ osiWorkWaitFinish(t, NItems, tmo)

NextOrder ==
    \/ \E t \in WClients : EnqueueInOrder(t)
    \/ \E q \in DOMAIN wq : WorkerLoop(q)
    \/ \E q \in DOMAIN wq : WorkerTake(q)
    \/ \E q \in DOMAIN wq : WorkerWait(q)
    \/ \E q \in DOMAIN wq : WorkerRun(q)
    \/ \E q \in DOMAIN wq : WorkerComplete(q)
    \/ \E q \in DOMAIN wq : WorkerRelease(q)
    \/ \E t \in WWaiters : WaitFinishLast(t)

InitOrder ==
    /\ InitCrit
    /\ InitPipe
    /\ InitFifo
    /\ OrderQueueInit
    /\ InitNotify
    /\ InitFlash

SpecOrder == InitOrder /\ [][NextOrder]_vars

\* the entries of the callback log that are callbacks
Callbacks(log) == SelectSeq(log, LAMBDA e : e[1] # "again")

\* the calls of osiWorkEnqueue on an item that was on the queue, logged
Agains(log) == SelectSeq(log, LAMBDA e : e[1] = "again")

\* osiWorkEnqueue(work, wq) once more on an item that is still on the list of
\* the queue; the call is logged (at most MaxAgain of them)
EnqueueAgain(t) ==
    \E w \in DOMAIN work :
        /\ CanRun(t)
        /\ work[w].alive /\ wq["q1"].running
        /\ work[w].wq = "q1"
        /\ Len(Agains(evlog)) < MaxAgain
        /\ LET r == EnqueueCS(wq, work, w, "q1")
           IN  wq' = r.wq /\ work' = r.work
        /\ evlog' = LogAppend(<<"again", w>>)
        /\ UNCHANGED <<wth, wtr, logcap, crit, nonWorkVars>>

\* the ordering scenario with a client that enqueues items again while they
\* wait on the queue
NextAgain ==
    \/ \E t \in WClients : EnqueueInOrder(t)
    \/ \E t \in WClients : EnqueueAgain(t)
    \/ \E q \in DOMAIN wq : WorkerLoop(q)
    \/ \E q \in DOMAIN wq : WorkerTake(q)
    \/ \E q \in DOMAIN wq : WorkerWait(q)
    \/ \E q \in DOMAIN wq : WorkerRun(q)
    \/ \E q \in DOMAIN wq : WorkerComplete(q)
    \/ \E q \in DOMAIN wq : WorkerRelease(q)

\* one queue, NItems work items, every callback and every repeated enqueue
\* logged
AgainQueueInit ==
    /\ wq = [q \in {"q1"} |-> WqInit]
    /\ work = [w \in 1..NItems |-> WorkInit]
    /\ wth = [q \in {"q1"} |-> WthInit]
    /\ wtr = WtrIdle
    /\ evlog = <<>>
    /\ logcap = 2 * NItems + MaxAgain + 1

InitAgain ==
    /\ InitCrit
    /\ InitPipe
    /\ InitFifo
    /\ AgainQueueInit
    /\ InitNotify
    /\ InitFlash

SpecAgain == InitAgain /\ [][NextAgain]_vars

\* osiWorkWaitFinish on the last item, called once, at any moment after the
\* item was enqueued
WaitFinishEnqueued(t) ==
    \E tmo \in Timeouts :
        /\ Enqueued(NItems)
        /\ wtr.ret = "none"
        /\ osiWorkWaitFinish(t, NItems, tmo)

\* the ordering scenario with a thread that waits for the last item while
\* the worker is at work: nothing is cancelled, deleted or enqueued again
NextFinish ==
    \/ \E t \in WClients : EnqueueInOrder(t)
    \/ \E q \in DOMAIN wq : WorkerLoop(q)
    \/ \E q \in DOMAIN wq : WorkerTake(q)
    \/ \E q \in DOMAIN wq : WorkerWait(q)
    \/ \E q \in DOMAIN wq : WorkerRun(q)
    \/ \E q \in DOMAIN wq : WorkerComplete(q)
    \/ \E q \in DOMAIN wq : WorkerRelease(q)
    \/ \E t \in WWaiters : WaitFinishEnqueued(t)
    \/ \E t \in WWaiters : WaitFinishWake(t)
    \/ \E t \in WWaiters : WaitFinishTimeout(t)

SpecFinish == InitOrder /\ [][NextFinish]_vars

\* osiWorkEnqueue of an item that no thread is waiting for
EnqueueOther(t) ==
    \E w \in DOMAIN work, q \in DOMAIN wq :
        /\ w # wtr.work
        /\ osiWorkEnqueue(t, w, q)

\* one queue with its worker, a client that enqueues items and cancels
\* them, and a thread that waits without timeout for an item; the item
\* waited for is not enqueued again
NextLost ==
    \/ \E t \in WClients : EnqueueOther(t)
    \/ \E t \in WClients, w \in DOMAIN work : osiWorkCancel(t, w)
    \/ \E q \in DOMAIN wq : WorkerLoop(q)
    \/ \E q \in DOMAIN wq : WorkerTake(q)
    \/ \E q \in DOMAIN wq : WorkerWait(q)
    \/ \E q \in DOMAIN wq : WorkerRun(q)
    \/ \E q \in DOMAIN wq : WorkerComplete(q)
    \/ \E q \in DOMAIN wq : WorkerRelease(q)
    \/ \E t \in WWaiters, w \in DOMAIN work : osiWorkWaitFinish(t, w, "forever")
    \/ \E t \in WWaiters : WaitFinishWake(t)

\* the scheduler runs the worker when it is ready, and the waiting thread
\* when the semaphore it waits for has a count
FairLost ==
    /\ WF_vars(WorkerStep("q1"))
    /\ WF_vars(\E t \in WWaiters : WaitFinishWake(t))

SpecLost == InitWait /\ [][NextLost]_vars /\ FairLost

\* osiWorkEnqueue or osiWorkEnqueueLast of an item that is on no queue: it
\* was never enqueued, or the worker has taken it
EnqueueDetached(t) ==
    \E w \in DOMAIN work, q \in DOMAIN wq :
        /\ work[w].wq = NULL
        /\ osiWorkEnqueue(t, w, q) \/ osiWorkEnqueueLast(t, w, q)

\* one queue that is never deleted, its worker, and a client that enqueues
\* items at any moment, as often as it likes, and never cancels, deletes or
\* moves an item
NextWake ==
    \/ \E t \in WClients : EnqueueDetached(t)
    \/ \E q \in DOMAIN wq : WorkerLoop(q)
    \/ \E q \in DOMAIN wq : WorkerTake(q)
    \/ \E q \in DOMAIN wq : WorkerWait(q)
    \/ \E q \in DOMAIN wq : WorkerRun(q)
    \/ \E q \in DOMAIN wq : WorkerComplete(q)
    \/ \E q \in DOMAIN wq : WorkerRelease(q)

\* the scheduler runs the worker when it is ready
FairWake == WF_vars(WorkerStep("q1"))

SpecWake == InitWait /\ [][NextWake]_vars /\ FairWake

NextCoalesce ==
    \/ \E t \in NTriggers : osiNotifyTrigger(t)
    \/ \E t \in NTriggers : TriggerSendWake(t)
    \/ \E t \in NTriggers : TriggerSendTimeout(t)
    \/ osiNotifyTriggerISR
    \/ \E t \in NTargets : osiNotifyTriggerSelf(t)
    \/ \E t \in NPosters : osiThreadCallback(t)
    \/ \E t \in NPosters : EventSendWake(t)
    \/ \E t \in NPosters : EventSendTimeout(t)
    \/ \E t \in NTargets : osiEventTryWait(t)
    \/ \E t \in NTargets : DispatchCallback(t)
    \/ \E t \in NTargets : DispatchNotify(t)
    \/ \E t \in NTargets : NotifyCallback(t)

SpecCoalesce == Init /\ [][NextCoalesce]_vars

NextNotify ==
    \/ \E t \in NTriggers : osiNotifyTrigger(t)
    \/ \E t \in NTriggers : TriggerSendWake(t)
    \/ \E t \in NTriggers : TriggerSendTimeout(t)
    \/ osiNotifyTriggerISR
    \/ \E t \in NTargets : osiNotifyTriggerSelf(t)
    \/ \E t \in NTriggers : osiNotifyCancel(t)
    \/ \E t \in NTriggers : osiNotifyDelete(t)
    \/ \E t \in NPosters : osiThreadCallback(t)
    \/ \E t \in NPosters : EventSendWake(t)
    \/ \E t \in NPosters : EventSendTimeout(t)
    \/ \E t \in NTargets : osiEventTryWait(t)
    \/ \E t \in NTargets : DispatchCallback(t)
    \/ \E t \in NTargets : DispatchNotify(t)
    \/ \E t \in NTargets : NotifyCallback(t)

SpecNotify == Init /\ [][NextNotify]_vars

\* the event queue of one thread: senders in every context, and the thread
\* itself in osiEventTryWait
NextEvent ==
    \/ \E t \in NSenders : EventSend(t)
    \/ \E t \in NSenders, tmo \in Timeouts : EventTrySend(t, tmo)
    \/ \E t \in NSenders : osiThreadCallback(t)
    \/ \E t \in NPosters \cup NTargets : EventSendWake(t)
    \/ \E t \in NPosters \cup NTargets : EventSendTimeout(t)
    \/ \E t \in NTargets : osiEventTryWait(t)
    \/ \E t \in NTargets : DispatchCallback(t)
    \/ \E t \in NTargets : DispatchUser(t)

SpecEvent == Init /\ [][NextEvent]_vars

-----------------------------------------------------------------------------
(* Pipe: properties *)

\* C1: in every reachable state of the pipe, whatever the interleaving of
\* osiPipeRead, osiPipeWrite, osiPipeReadAll, osiPipeWriteAll, osiPipeStop,
\* osiPipeSetEof and osiPipeReset, the counters satisfy 0 <= wr - rd <= size.
C1_PipeCounters ==
    /\ 0 <= pipe.wr - pipe.rd
    /\ pipe.wr - pipe.rd <= pipe.size

\* C1 happens: the pipe is full again after bytes were consumed, with
\* osiPipeReadAll waiting for more and osiPipeWriteAll having just filled it
C1_Witness ==
    /\ pipe.wr - pipe.rd = pipe.size
    /\ pipe.rd > 0
    /\ pth["rd"].pc = "ra_wait"
    /\ pth["wr"].pc = "wa_post"

\* C2: with no reset in between, the bytes returned by the reads, concatenated,
\* are a prefix of the bytes accepted by the writes, concatenated, in the same
\* order, for every interleaving and every size, across the buffer wrap.
C2_PipeByteOrder == IsPrefix(rdlog, wrlog)

\* C2 happens: an osiPipeRead that crossed the end of the buffer has just
\* returned the last bytes written
C2_Witness ==
    /\ pth["rd"].pc = "read_post"
    /\ ((pipe.rd - pth["rd"].n) % pipe.size) + pth["rd"].n > pipe.size
    /\ rdlog = wrlog
    /\ Len(rdlog) > pipe.size

\* C3 as stated: after osiPipeSetEof on a running pipe, an osiPipeRead with
\* size > 0 returns the remaining bytes in order while there are any and -1
\* once the pipe is empty, and an osiPipeWrite with size > 0 returns -1 and
\* leaves wr unchanged.
C3_EofAsStated ==
    [][ /\ \A t \in PReaders, n \in 1..MaxReq :
              (pipe.running /\ pipe.eof /\ osiPipeRead(t, n)) =>
                  IF pipe.wr = pipe.rd
                  THEN pth'[t].pc = "idle" /\ pth'[t].ret = -1
                  ELSE /\ pth'[t].pc = "read_post"
                       /\ pth'[t].n = Min(n, pipe.wr - pipe.rd)
                       /\ rdlog' = rdlog \o SubSeq(wrlog, Len(rdlog) + 1,
                                                   Len(rdlog) + pth'[t].n)
        /\ \A t \in PWriters, n \in 1..MaxReq :
              (pipe.running /\ pipe.eof /\ osiPipeWrite(t, n)) =>
                  /\ pth'[t].pc = "idle" /\ pth'[t].ret = -1
                  /\ pipe'.wr = pipe.wr
      ]_vars

\* C4: after osiPipeStop and until osiPipeReset, every osiPipeRead and
\* osiPipeWrite with size > 0 returns -1 and leaves rd, wr and the buffer
\* unchanged, however many bytes are buffered.
C4_StoppedCalls ==
    [][ /\ \A t \in PReaders, n \in 1..MaxReq :
              (~pipe.running /\ osiPipeRead(t, n)) =>
                  /\ pth'[t].pc = "idle" /\ pth'[t].ret = -1
                  /\ pipe'.rd = pipe.rd /\ pipe'.wr = pipe.wr
                  /\ pipe'.data = pipe.data
        /\ \A t \in PWriters, n \in 1..MaxReq :
              (~pipe.running /\ osiPipeWrite(t, n)) =>
                  /\ pth'[t].pc = "idle" /\ pth'[t].ret = -1
                  /\ pipe'.rd = pipe.rd /\ pipe'.wr = pipe.wr
                  /\ pipe'.data = pipe.data
      ]_vars

\* C4 happens: the pipe is stopped with bytes buffered, no end of data was
\* signalled, and both the reader and the writer have been answered -1
C4_Witness ==
    /\ ~pipe.running /\ ~pipe.eof /\ pipe.data_done = 0
    /\ pipe.wr > pipe.rd
    /\ pth["rd"] = PReturn(-1)
    /\ pth["wr"] = PReturn(-1)


\* thread t waits without timeout for a semaphore of the pipe
BlockedForever(t) ==
    /\ pth[t].pc \in {"ra_wait", "wa_wait", "wra_wait", "wwa_wait"}
    /\ pth[t].tmo = "forever"

\* C13 as stated: after osiPipeStop or osiPipeSetEof every thread blocked
\* without timeout in osiPipeReadAll, osiPipeWriteAll, osiPipeWaitReadAvail
\* or osiPipeWaitWriteAvail on the pipe eventually returns, for any number of
\* threads blocked at that moment.
C13_StopWakesAllAsStated ==
    \A t \in PThreads :
        (BlockedForever(t) /\ (~pipe.running \/ pipe.eof)) ~> (pth[t].pc = "idle")

\* the positions of a thread inside osiPipeReadAll or osiPipeWriteAll
AllPcs == {"ra_read", "ra_post", "ra_check", "ra_wait", "wa_write", "wa_post", "wa_wait"}

\* a step of thread t inside osiPipeReadAll or osiPipeWriteAll that moves
\* moved bytes: while the call goes on, len counts them and len + size stays
\* the size asked for; when the call returns, it returns -1 after a failed
\* osiPipeRead / osiPipeWrite, and otherwise len: with nothing left to
\* transfer, with timeout 0, at end of file (read), or when the wait timed out
AllStep(t, moved) ==
    (pth[t].pc \in AllPcs /\ pth'[t] # pth[t]) =>
        LET c == pth[t]
            d == pth'[t]
        IN  IF d.pc \in AllPcs
            THEN /\ d.len = c.len + moved
                 /\ d.len + d.size = c.len + c.size
                 /\ d.size >= 0
                 /\ d.tmo = c.tmo
            ELSE /\ d.pc = "idle"
                 /\ d.ret = -1 => c.pc \in {"ra_read", "wa_write"}
                 /\ d.ret # -1 =>
                       /\ d.ret = c.len + moved
                       /\ d.ret <= c.len + c.size
                       /\ \/ c.size = moved
                          \/ c.tmo = "zero"
                          \/ pipe.eof /\ c.pc = "ra_check"
                          \/ c.tmo = "finite" /\ c.pc \in {"ra_wait", "wa_wait"}

\* the first step of a call for n bytes with timeout tmo that moves moved
\* bytes and leaves thread t in d
AllEntry(d, n, tmo, moved) ==
    IF d.pc \in AllPcs
    THEN d.len = moved /\ d.len + d.size = n /\ d.size >= 0 /\ d.tmo = tmo
    ELSE d.pc = "idle" /\ (d.ret = -1 \/ (d.ret = moved /\ (moved = n \/ tmo = "zero")))

WraPcs == {"wra_run", "wra_avail", "wra_eof", "wra_wait"}

WwaPcs == {"wwa_run", "wwa_avail", "wwa_wait"}

\* C19 as stated: osiPipeWaitReadAvail (osiPipeWaitWriteAvail) returns true
\* exactly when it observes the running pipe non-empty (not full); it waits
\* on rd_avail_sema (wr_avail_sema) only while the pipe is neither stopped
\* nor at EOF and empty (full): with the pipe stopped, or at EOF and empty
\* (full), it returns false without waiting.
C19_WaitAvailAsStated ==
    [][/\ \A t \in PReaders :
            /\ (pth[t].pc \in WraPcs /\ pth'[t].pc = "idle") =>
                  (pth'[t].ret = PBool(TRUE)
                      <=> (pth[t].pc = "wra_avail" /\ osiPipeReadAvail(pipe) > 0))
            /\ (pth'[t].pc = "wra_wait" /\ pth'[t].tmo # "zero"
                    /\ pipe'.rd_avail_sema = 0) =>
                  /\ pipe'.running
                  /\ ~(pipe'.eof /\ osiPipeReadAvail(pipe') = 0)
       /\ \A t \in PWriters :
            /\ (pth[t].pc \in WwaPcs /\ pth'[t].pc = "idle") =>
                  (pth'[t].ret = PBool(TRUE)
                      <=> (pth[t].pc = "wwa_avail" /\ osiPipeWriteAvail(pipe) > 0))
            /\ (pth'[t].pc = "wwa_wait" /\ pth'[t].tmo # "zero"
                    /\ pipe'.wr_avail_sema = 0) =>
                  /\ pipe'.running
                  /\ ~(pipe'.eof /\ osiPipeWriteAvail(pipe') = 0)]_vars

\* a callback is invoked in the step
PcbInvoked == pcb'.seq # pcb.seq

\* thread t leaves the critical section of a read with data, of a write
\* with data
ReadStored(t) == pth[t].pc \in {"idle", "ra_read"} /\ pth'[t].pc \in {"read_post", "ra_post"}

WriteStored(t) == pth[t].pc \in {"idle", "wa_write"} /\ pth'[t].pc \in {"write_post", "wa_post"}

\* thread t takes the step after the critical section of a read, of a write
AfterRead(t) == pth[t].pc \in {"read_post", "ra_post"} /\ pth'[t].pc # pth[t].pc

AfterWrite(t) == pth[t].pc \in {"write_post", "wa_post"} /\ pth'[t].pc # pth[t].pc

\* C29: a callback of the pipe is invoked only in the step after the
\* critical section of a read or a write that moved data, by a thread that
\* holds no interrupt mask; after a write it is the reader callback with
\* RX_ARRIVED, invoked if and only if a callback is registered with that
\* bit; after a read it is the writer callback with TX_COMPLETE, invoked if
\* and only if the read returned every byte that was buffered when it
\* entered and a callback is registered with that bit
C29_PipeCallbacks ==
    /\ [][PcbInvoked =>
            /\ ~pcb'.held
            /\ crit[pcb'.by] = 0
            /\ \/ AfterRead(pcb'.by) /\ pcb'.ev = "TX_COMPLETE"
               \/ AfterWrite(pcb'.by) /\ pcb'.ev = "RX_ARRIVED"]_vars
    /\ [][\A t \in PThreads :
            /\ ReadStored(t) =>
                   /\ Len(rdlog') > Len(rdlog)
                   /\ pth'[t].drained <=> (Len(rdlog') - Len(rdlog) = pipe.wr - pipe.rd)
            /\ WriteStored(t) => Len(wrlog') > Len(wrlog)
            /\ AfterRead(t) =>
                   (PcbInvoked <=> /\ pth[t].drained
                                   /\ pipe.wr_cb # "NULL"
                                   /\ "TX_COMPLETE" \in pipe.wr_cb_mask)
            /\ AfterWrite(t) =>
                   (PcbInvoked <=> /\ pipe.rd_cb # "NULL"
                                   /\ "RX_ARRIVED" \in pipe.rd_cb_mask)]_vars

\* C29 witness: the reader has invoked the writer callback with TX_COMPLETE
\* after a read that emptied the pipe
C29_Witness ==
    /\ pcb.ev = "TX_COMPLETE"
    /\ pcb.by \in PReaders
    /\ ~pcb.held
    /\ pipe.wr = pipe.rd
    /\ Len(rdlog) > 0
    /\ pipe.wr_cb = "cb"

\* C30 as stated: once the running flag is false no step makes it true again
C30_StopTerminalAsStated == [][~pipe.running => ~pipe'.running]_vars

\* C30: once the running flag is false it stays false until osiPipeReset: the
\* only step that makes it true again is the critical section of
\* osiPipeReset, taken by the thread that stops and resets the pipe, while
\* the reader and the writer stay where they are in their calls
C30_StopTerminal ==
    [][(~pipe.running /\ pipe'.running) =>
          /\ pipe' = ResetCS(pipe)
          /\ \A t \in PReaders \cup PWriters : pth'[t] = pth[t]]_vars

\* C30 witness: a read has returned -1 on the stopped pipe (no end of data
\* was announced), and the pipe runs again and has taken a write since
C30_Witness ==
    /\ \E t \in PReaders : pth[t] = PReturn(-1)
    /\ pipe.data_done = 0
    /\ pipe.running
    /\ Len(wrlog) > 0

\* C33: a thread that has returned from a call on the pipe holds no
\* interrupt mask: every osiEnterCritical of the call was matched by an
\* osiExitCritical
C33_CritBalancedAsStated ==
    \A t \in PThreads : pth[t].pc = "idle" => crit[t] = 0

-----------------------------------------------------------------------------
(* Work queue: properties *)

\* run(1), complete(1), run(2), complete(2), ..
ExpectedLog ==
    [k \in 1..(2 * NItems) |->
        <<IF k % 2 = 1 THEN "run" ELSE "complete", (k + 1) \div 2>>]

\* C5: on a running work queue, items enqueued with osiWorkEnqueue in the
\* order 1, 2, 3, .. and not cancelled, deleted or enqueued again have their
\* run and complete callbacks invoked by the worker in that order, once each,
\* complete(i) after run(i) and before run(i+1); osiWorkWaitFinish on the last
\* item, called after its completion, returns true without blocking.
C5_WorkOrder ==
    /\ IsPrefix(evlog, ExpectedLog)
    /\ ( /\ \A w \in DOMAIN work : Enqueued(w)
         /\ wth["q1"].pc = "wait"
         /\ wq["q1"].work_list = <<>> ) => evlog = ExpectedLog
    /\ wtr.pc # "wf_wait"
    /\ wtr.ret # "false"

\* C5 happens: every callback has been invoked and osiWorkWaitFinish on the
\* last item has returned true
C5_Witness ==
    /\ evlog = ExpectedLog
    /\ wtr.pc = "idle"
    /\ wtr.ret = "true"

\* the queues on whose list item w is
ListsOf(w) ==
    {q \in DOMAIN wq : \E k \in 1..Len(wq[q].work_list) : wq[q].work_list[k] = w}

\* C6: outside a critical section, for every work item w and queue q,
\* w.wq == q if and only if w is on q.work_list, and w is on at most one
\* list (and once on it), across all interleavings of osiWorkEnqueue,
\* osiWorkEnqueueLast, osiWorkCancel, osiWorkDelete, osiWorkQueueDelete and
\* the worker threads.
C6_ListMembership ==
    \A w \in DOMAIN work :
        /\ \A q \in DOMAIN wq : (work[w].wq = q) <=> (q \in ListsOf(w))
        /\ Cardinality(ListsOf(w)) <= 1
        /\ \A q \in DOMAIN wq :
              Len(SelectSeq(wq[q].work_list, LAMBDA x : x = w)) <= 1

\* C6 happens: item 1 went from one queue to the other and stands behind
\* item 2 on q2, after q1 was deleted and its worker emptied the list
C6_Witness ==
    /\ wq["q2"].work_list = <<2, 1>>
    /\ work[1].wq = "q2"
    /\ wth["q1"].pc = "exited"
    /\ wth["q2"].pc = "run"

\* list without the occurrences of item w
Without(list, w) == SelectSeq(list, LAMBDA x : x # w)

\* what a call that puts item w at the tail of queue q makes of the queues Q
\* and the items W: in Q2 and W2, w is off the list it was on, last on the
\* list of q and once on it, w.wq = q, work_sema of q is released, and
\* nothing else has moved
PutLast(Q, W, Q2, W2, w, q) ==
    /\ Q2[q].work_list = Append(Without(Q[q].work_list, w), w)
    /\ Len(SelectSeq(Q2[q].work_list, LAMBDA x : x = w)) = 1
    /\ W2[w].wq = q
    /\ Q2[q].work_sema = 1
    /\ \A p \in DOMAIN Q \ {q} :
          /\ Q2[p].work_list = Without(Q[p].work_list, w)
          /\ Q2[p].work_sema = Q[p].work_sema
    /\ \A x \in DOMAIN W \ {w} : W2[x] = W[x]

\* C21: osiWorkEnqueue(w, q) on an item that is detached or on another queue
\* takes it off its old list, appends it at the tail of the list of q, sets
\* w.wq = q and releases work_sema of q; osiWorkEnqueueLast(w, q) does the
\* same also when w is on q already: w ends last on the list of q, once.
\* Stated of every step that is such a call, and of the critical section of
\* the call in every state the queues reach.
C21_EnqueueTail ==
    /\ [][\A t \in WClients, w \in DOMAIN work, q \in DOMAIN wq :
            /\ (work[w].wq # q /\ osiWorkEnqueue(t, w, q)) =>
                  PutLast(wq, work, wq', work', w, q)
            /\ osiWorkEnqueueLast(t, w, q) =>
                  PutLast(wq, work, wq', work', w, q)]_vars
    /\ [](\A w \in DOMAIN work, q \in DOMAIN wq :
            (work[w].alive /\ wq[q].running) =>
                /\ work[w].wq # q =>
                      LET r == EnqueueCS(wq, work, w, q)
                      IN  PutLast(wq, work, r.wq, r.work, w, q)
                /\ LET r == EnqueueLastCS(wq, work, w, q)
                   IN  PutLast(wq, work, r.wq, r.work, w, q))

\* C21 witness: both items were enqueued on q1 after its worker had found
\* the list empty; item 1 stands last, work_sema is released and the worker
\* has not woken yet
C21_Witness ==
    /\ wq["q1"].work_list = <<2, 1>>
    /\ wq["q1"].work_sema = 1
    /\ wth["q1"].pc = "wait"
    /\ work[1].wq = "q1" /\ work[2].wq = "q1"
    /\ wq["q2"].work_list = <<>>

\* C9 as stated: no thread is suspended in a blocking call (a semaphore
\* acquire, a blocking send to an event queue) while it holds the critical
\* section it entered.
C9_NoBlockingInCritical == \A t \in Threads : Suspended(t) => crit[t] = 0

\* C14: osiWorkWaitFinish(work, timeout) returns true only after observing
\* work.wq == none; with work.wq none at entry it returns true without
\* waiting; with work enqueued and timeout 0 it returns false without
\* waiting; after each successful acquire of the shared finish_sema it
\* rechecks work.wq, so the completion of a different item never makes it
\* return true while work is still enqueued.
C14_WaitFinish ==
    [][/\ \A t \in WWaiters, w \in DOMAIN work, tmo \in Timeouts :
            osiWorkWaitFinish(t, w, tmo) =>
                /\ wtr'.ret = "true" => work[w].wq = NULL
                /\ work[w].wq = NULL =>
                      /\ wtr'.pc = "idle" /\ wtr'.ret = "true"
                      /\ wq' = wq /\ crit' = crit
                /\ (work[w].wq # NULL /\ tmo = "zero") =>
                      /\ wtr'.pc = "idle" /\ wtr'.ret = "false"
                      /\ wq' = wq /\ crit' = crit
       /\ (wtr.pc = "wf_wait" /\ wtr' # wtr) =>
            /\ wtr'.ret = "true" => work[wtr.work].wq = NULL
            /\ work[wtr.work].wq # NULL =>
                  \/ wtr'.pc = "wf_wait" /\ wtr'.work = wtr.work
                  \/ wtr'.pc = "idle" /\ wtr'.ret = "false" /\ wtr.tmo = "finite"]_vars

\* C14 happens: the waiter took finish_sema after another completion, found
\* its item still enqueued and waits again, while the other item is off the
\* queue
C14_Witness ==
    /\ wtr.pc = "wf_wait"
    /\ wtr.woken
    /\ work[wtr.work].wq # NULL
    /\ \E v \in DOMAIN work : v # wtr.work /\ work[v].wq = NULL
    /\ wq[wtr.q].finish_sema = 0

\* _wqThreadEntry of queue q has left its loop
LeftLoop(W, q) == W[q].pc \in {"teardown", "free", "exited"}

\* one step seen from the teardown of queue q
TeardownStep(q) ==
    \* the loop test that finds running false leaves the loop
    /\ (wth[q].pc = "loop" /\ ~wq[q].running /\ wth'[q] # wth[q]) =>
          wth'[q].pc = "teardown"
    \* out of the loop the worker takes and runs nothing more
    /\ LeftLoop(wth, q) =>
          /\ LeftLoop(wth', q)
          /\ \A k \in 1..Len(evlog') : k > Len(evlog) => evlog'[k][1] = "detach"
    \* after the teardown the list is empty and no item is on the queue
    /\ wth'[q].pc \in {"free", "exited"} =>
          /\ wq'[q].work_list = <<>>
          /\ \A w \in DOMAIN work : work'[w].wq # q
    \* the queue is freed by the worker, after the teardown, as it exits
    /\ (wq[q].alive /\ ~wq'[q].alive) =>
          wth[q].pc = "free" /\ wth'[q].pc = "exited"
    /\ wth'[q].pc = "exited" <=> ~wq'[q].alive
    \* and is freed once: nothing touches it afterwards
    /\ ~wq[q].alive => wq'[q] = wq[q] /\ wth'[q] = wth[q]

-----------------------------------------------------------------------------
(* Notification: properties *)

\* a thread that asks the target thread to quit, with and without waiting,
\* the target thread doing the same to itself, an ISR that posts callbacks
\* to the target thread, and the target thread in osiEventTryWait
NextQuit ==
    \/ \E t \in NPosters \cup NTargets, wait \in BOOLEAN : osiSendQuitEvent(t, wait)
    \/ \E t \in NPosters, sent \in BOOLEAN : QuitSendEnd(t, sent)
    \/ \E t \in NPosters : QuitAcquire(t)
    \/ osiThreadCallback(ISR)
    \/ \E t \in NTargets : osiEventTryWait(t)
    \/ \E t \in NTargets : DispatchCallback(t)
    \/ \E t \in NTargets : DispatchQuit(t)

SpecQuit == Init /\ [][NextQuit]_vars

\* the Notify events of the notification in the event queue, or taken from
\* it and not yet processed by the dispatcher
InFlight ==
    Cardinality({k \in 1..Len(mbox) : mbox[k].id = "Notify"})
        + (IF dsp.pc = "got" /\ dsp.ev.id = "Notify" THEN 1 ELSE 0)

\* every event sent has been dispatched and no trigger is in progress
Quiescent ==
    /\ mbox = <<>>
    /\ dsp.pc = "idle"
    /\ trg.pc = "idle"
    /\ ~panic

\* C7 as stated: the n >= 1 triggers issued before the target thread
\* dispatches the Notify event get exactly one callback invocation, and a
\* trigger issued after the dispatch has set the status to Idle gets exactly
\* one more: never more callbacks than batches of triggers, and as many once
\* every event is dispatched.
C7_CoalesceAsStated ==
    /\ ncb <= batches
    /\ Quiescent => ncb = batches

\* C8 as stated: the status is QueuedActive, QueuedCancel or QueuedDelete if
\* and only if exactly one Notify event of the notification is in flight, it
\* is Idle if and only if there is none, and there are never two.
C8_OneEventAsStated ==
    /\ InFlight <= 1
    /\ notify.alive =>
          /\ (notify.status \in {"QueuedActive", "QueuedCancel", "QueuedDelete"})
                <=> (InFlight = 1)
          /\ (notify.status = "Idle") <=> (InFlight = 0)

\* C16: after osiNotifyTrigger followed by osiNotifyCancel, with no further
\* trigger before the target thread dispatches the Notify event (the status
\* is still QueuedCancel then), the dispatcher does not invoke the callback
\* and leaves the status Idle; a trigger between the cancel and the dispatch
\* arms the notification again (QueuedActive) without a second event, and
\* the callback is then invoked exactly once.
C16_CancelRearm ==
    [][/\ (dsp.pc = "got" /\ dsp.ev.id = "Notify" /\ dsp' # dsp) =>
            /\ notify.status = "QueuedCancel" =>
                  notify'.status = "Idle" /\ dsp'.pc = "idle" /\ ncb' = ncb
            /\ notify.status = "QueuedActive" =>
                  notify'.status = "Idle" /\ dsp'.pc = "cb" /\ ncb' = ncb
       /\ (dsp.pc = "cb" /\ dsp' # dsp) => (ncb' = ncb + 1 /\ dsp'.pc = "idle")
       /\ ncb' # ncb => dsp.pc = "cb"
       /\ (notify.status = "QueuedCancel" /\ trigs' # trigs) =>
            /\ notify'.status = "QueuedActive"
            /\ mbox' = mbox /\ trg' = trg /\ ~panic'
       /\ (notify.status = "QueuedActive" /\ notify'.status = "QueuedCancel") =>
            mbox' = mbox /\ dsp' = dsp
       /\ InFlight' <= 1]_vars

\* C16 happens: the notification was triggered once and cancelled, and the
\* target thread has received its Notify event and is about to dispatch it
C16_Witness ==
    /\ dsp.pc = "got" /\ dsp.ev.id = "Notify"
    /\ notify.status = "QueuedCancel"
    /\ trigs = 1 /\ batches = 1 /\ ncb = 0
    /\ InFlight = 1

\* C17 as stated: a notification deleted once is freed exactly once, inside
\* osiNotifyDelete when its status is Idle, otherwise by the dispatcher when
\* it dequeues the in-flight Notify event: a notification in QueuedDelete
\* has its Notify event in flight (or its sender still waiting to queue it),
\* and a freed notification has none.
C17_DeleteAsStated ==
    /\ notify.status = "QueuedDelete" => (InFlight = 1 \/ trg.pc = "send_wait")
    /\ ~notify.alive => (InFlight = 0 /\ trg.pc = "idle")

-----------------------------------------------------------------------------
(* Event queue: properties *)

\* C12: osiEventSend from thread context with the current thread as target
\* never blocks: with the thread's event queue full the system enters the
\* panic state, otherwise the event is appended and true is returned;
\* osiEventSend and osiEventTrySend from ISR context never block and return
\* false when the event queue is full.
C12_SendNeverBlocks ==
    [][snd'.n # snd.n =>
         /\ (snd'.ctx = "self" /\ snd'.api \in {"send", "callback"}) =>
               /\ ~snd'.waited
               /\ \A t \in NTargets : pst'[t].pc = "idle"
               /\ IF Len(mbox) >= MboxCap
                  THEN panic' /\ ~snd'.returned /\ mbox' = mbox
                  ELSE /\ mbox' = Append(mbox, snd'.ev)
                       /\ snd'.returned /\ snd'.ret /\ ~panic'
         /\ snd'.ctx = "isr" =>
               /\ ~snd'.waited
               /\ pst' = pst
               /\ snd'.returned
               /\ ~panic'
               /\ Len(mbox) >= MboxCap => (~snd'.ret /\ mbox' = mbox)
               /\ Len(mbox) < MboxCap => (snd'.ret /\ mbox' = Append(mbox, snd'.ev))]_vars

\* C12 happens: the target thread sent an event to itself with its event
\* queue full, after a callback had been posted to it
C12_Witness ==
    /\ panic
    /\ snd.ctx = "self" /\ snd.api = "send" /\ snd.full
    /\ Len(mbox) = MboxCap
    /\ Len(cblog.posted) > 0

IsCallback(e) == e.id = "Callback"

\* the cb_ctx of the Callback events received and not yet dispatched, and
\* of those in the event queue, oldest first
CallbacksInFlight ==
    LET q == SelectSeq(mbox, IsCallback)
    IN  (IF dsp.pc = "got" /\ IsCallback(dsp.ev) THEN <<dsp.ev.param2>> ELSE <<>>)
            \o [i \in 1..Len(q) |-> q[i].param2]

\* the cb_ctx of the callbacks run, in the order they ran
CallbacksRun == [i \in 1..Len(cblog.ran) |-> cblog.ran[i].ctx]

\* C15: for every osiThreadCallback(thread, cb, ctx) that returned true,
\* cb(ctx) is invoked exactly once, by the target thread inside its
\* osiEventWait / osiEventTryWait, never by the poster or the ISR; callbacks
\* posted to one thread run in the order their events were enqueued; the
\* event handed back to the caller has id None.
C15_CallbackOnce ==
    /\ cblog.posted = CallbacksRun \o CallbacksInFlight
    /\ \A i, j \in 1..Len(cblog.posted) : i # j => cblog.posted[i] # cblog.posted[j]
    /\ \A i \in 1..Len(cblog.ran) : cblog.ran[i].by \in NTargets
    /\ (dsp.pc = "idle" /\ dsp.ev.param1 = 1) =>
          /\ dsp.ev.id = "None"
          /\ cblog.ran # <<>>
          /\ cblog.ran[Len(cblog.ran)].ctx = dsp.ev.param2
    /\ (snd.api = "callback" /\ snd.returned /\ snd.ret) =>
          \E i \in 1..Len(cblog.posted) : cblog.posted[i] = snd.ev.param2
    /\ (snd.api = "callback" /\ snd.returned /\ ~snd.ret) =>
          \A i \in 1..Len(cblog.posted) : cblog.posted[i] # snd.ev.param2

\* C15 happens: two callbacks have run in the order they were posted, the
\* second has just been handed back with id None, and a third, posted from
\* another context, waits in the event queue
C15_Witness ==
    /\ Len(cblog.ran) = 2
    /\ Len(cblog.posted) = 3
    /\ dsp.pc = "idle" /\ dsp.ev.id = "None"
    /\ dsp.ev.param2 = cblog.posted[2]
    /\ Len(mbox) = 1
    /\ snd.api = "callback" /\ snd.ctx = "isr" /\ snd.ret

-----------------------------------------------------------------------------
(* FIFO: properties *)

\* the bytes in the FIFO, oldest first, as the stream of the puts and gets
\* has them
FifoPending == Drop(putlog, Len(getlog))

\* C10: with no reset, skip or search in between, the bytes returned by the
\* gets, concatenated, are the prefix of the same length of the bytes accepted
\* by the puts; a put into a FIFO with less free space than asked stores only
\* the first osiFifoSpace bytes and returns that count; osiFifoPeek returns
\* the bytes the next osiFifoGet returns and leaves rd unchanged.
C10_FifoStream ==
    /\ IsPrefix(getlog, putlog)
    /\ peekInternal(fifo, fifo.size) = FifoPending
    /\ (fcall.op = "put" /\ fcall.space0 < fcall.req) =>
          /\ fcall.ret = fcall.space0
          /\ osiFifoSpace(fifo) = 0
          /\ Len(putlog) >= fcall.ret
          /\ SubSeq(putlog, Len(putlog) - fcall.ret + 1, Len(putlog))
                = SubSeq(FifoPat(Len(putlog) - fcall.ret, fcall.req), 1, fcall.ret)
    /\ fcall.op = "peek" =>
          /\ fcall.ret = Min(fcall.req, Len(FifoPending))
          /\ fcall.out = SubSeq(FifoPending, 1, fcall.ret)
          /\ fifo.rd = fcall.rd0

\* C10 happens: after some gets, a put that asked for more than the free
\* space was cut short and its bytes were stored across the end of the buffer
C10_Witness ==
    /\ fcall.op = "put"
    /\ fcall.space0 < fcall.req
    /\ fcall.ret > 1
    /\ ((fifo.wr - fcall.ret) % fifo.size) + fcall.ret > fifo.size
    /\ Len(getlog) > 0

\* the unread bytes of the FIFO, oldest first, as the puts accepted them
FifoUnread == SubSeq(putlog, fifo.rd + 1, fifo.wr)

\* the index of the first occurrence of b in the sequence s, 0 if there is none
FirstAt(s, b) ==
    IF \E i \in 1..Len(s) : s[i] = b
    THEN CHOOSE i \in 1..Len(s) : s[i] = b /\ \A j \in 1..(i - 1) : s[j] # b
    ELSE 0

\* C11: osiFifoSearch(fifo, byte, keep) scans the unread bytes from rd up to
\* wr in stream order, following the buffer wrap: if the first occurrence of
\* byte is at stream position p it returns true and sets rd = p (keep) or
\* rd = p + 1 (not keep); if byte does not occur it returns false and sets
\* rd = wr; wr and the buffer contents are not changed and rd <= wr holds
\* afterwards.
C11_FifoSearch ==
    [][fcall'.op = "search" =>
         LET i == FirstAt(FifoUnread, fcall'.req)
         IN  /\ fifo'.wr = fifo.wr
             /\ fifo'.data = fifo.data
             /\ fifo'.size = fifo.size
             /\ fifo'.rd <= fifo'.wr
             /\ fcall'.ret = (i > 0)
             /\ fifo'.rd = IF i = 0 THEN fifo.wr
                           ELSE IF fcall'.keep THEN fifo.rd + i - 1
                           ELSE fifo.rd + i]_vars

\* C11 happens: a search that dropped the byte it found, after skipping a
\* byte that did not match, with the match stored beyond the wrap of the
\* buffer and a second occurrence of the byte still unread
C11_Witness ==
    /\ fcall.op = "search"
    /\ fcall.ret = TRUE
    /\ ~fcall.keep
    /\ fifo.rd - fcall.rd0 >= 2
    /\ (fcall.rd0 % fifo.size) + (fifo.rd - 1 - fcall.rd0) >= fifo.size
    /\ \E i \in 1..Len(FifoUnread) : FifoUnread[i] = fcall.req

-----------------------------------------------------------------------------
(* SPI flash driver: properties *)

\* the write-protect tables
WpTables ==
    {gGD8MWpMap, gGD16MWpMap, gGD32MWpMap, gGD64MWpMap, gGD128MWpMap, gXmcaWpMap}

\* the largest element of a non-empty set of numbers
MaxOf(S) == CHOOSE m \in S : \A x \in S : x <= m

\* the call recorded in fres is a call of halSpiFlashWpRange on a descriptor
\* that has a write-protect table
WpLookupDone == fres.fn = "halSpiFlashWpRange" /\ WpTableOf(fd) # <<>>

\* C22: for every write-protect table T (GD 1/2/4/8/16 MiB, XMCA) and every
\* offset, halSpiFlashWpRange returns {0, m}, m the largest T[i].offset, back
\* in bytes, with offset_unit >= T[i].offset, offset_unit being offset / 4 KiB
\* for GD and offset >> (capacity bits - 7) for XMCA; every table is strictly
\* decreasing and ends with offset 0, so that the scan ends inside the table.
C22_WpLookup ==
    /\ \A T \in WpTables :
          /\ \A i \in 1..(Len(T) - 1) : T[i].offset > T[i + 1].offset
          /\ T[Len(T)].offset = 0
    /\ WpLookupDone =>
          LET T == WpTableOf(fd)
              unit == IF fd.wp_type = "GD" THEN 4 * 1024
                      ELSE 2 ^ (((fd.mid \div 65536) % 256) - 7)
              offset_unit == fres.offset \div unit
              m == MaxOf({T[i].offset : i \in {j \in 1..Len(T) :
                                                  offset_unit >= T[j].offset}})
          IN  /\ fres.ret = UintRange(0, m * unit)
              /\ fres.ret.maxval >= 0

\* C22 witness: on an XMCA part an offset inside a unit got the protected
\* range that ends at a threshold in the middle of the table, below the offset
C22_Witness ==
    /\ WpLookupDone
    /\ fd.wp_type = "XMCA"
    /\ fres.ret.maxval > 0
    /\ fres.ret.maxval < fres.offset
    /\ fres.ret.maxval < fd.capacity \div 2

\* the call recorded in fres is halSpiFlashWpRange(d, 0, 1) on a GD part of
\* 8 MiB
WpZeroDone ==
    /\ fres.fn = "halSpiFlashWpRange"
    /\ fd.wp_type = "GD" /\ fd.capacity = 8 * MiB
    /\ fres.offset = 0 /\ fres.size = 1

\* C23 as stated: halSpiFlashWpRange(d, 0, 1) on a descriptor with capacity
\* 8 MiB and wp_type GD returns {0, 8 MiB}: everything is protected from
\* address 0.
C23_WpZeroAsStated == WpZeroDone => fres.ret = UintRange(0, 8 * MiB)

\* C23 amended: halSpiFlashWpRange(d, 0, 1) on a descriptor with capacity
\* 8 MiB and wp_type GD returns {0, 0}: nothing is protected, the range that
\* starts at address 0 can be written.
C23_WpZero == WpZeroDone => fres.ret = UintRange(0, 0)

\* C23 witness: the call has been made and has returned the empty range
C23_Witness == WpZeroDone /\ fres.ret.maxval = 0 /\ fres.ret.minval = 0

InitDone == fres.fn = "halSpiFlashInit"

\* the entries of the table whose mid is key
Hits(table, key) == {n \in 1..Len(table) : table[n].mid = key}

\* the keys of the three stages for an ID
StageKeys(mid) == <<mid, mid % 65536, mid % 256>>

MinOf(S) == CHOOSE x \in S : \A y \in S : x <= y

\* the descriptor but for mid and capacity
Copied(d) == [d EXCEPT !.mid = 0, !.capacity = 0]

\* C25: halSpiFlashInit takes the first entry whose mid is the full ID, if
\* none the first whose mid is the ID masked to 16 bits, if none the first
\* whose mid is the ID masked to 8 bits; if there is none at all it panics,
\* with the descriptor as it was and no command after RDID
C25_LookupOrder ==
    InitDone =>
        LET keys == StageKeys(dev.id)
            stages == {k \in 1..3 : Hits(props, keys[k]) # {}}
        IN  IF stages = {}
            THEN /\ fres.panic
                 /\ fd = BlankDesc
                 /\ fres.log = <<FlashCmd(159, <<>>)>>
            ELSE /\ ~fres.panic
                 /\ Copied(fd) = Copied(props[MinOf(Hits(props, keys[MinOf(stages)]))])
                 /\ Len(fres.log) > 1

\* C25 witness: the ID C8 40 18 took the entry of its full ID, the third of
\* a table whose first two entries are the ones of the manufacturer and of
\* manufacturer and memory type
C25_Witness ==
    /\ InitDone
    /\ dev.id = Mid(200, 64, 24)
    /\ props = <<PropGD, PropGD40, PropGD18, PropGD17, PropXmcb>>
    /\ Copied(fd) = Copied(PropGD18)
    /\ ~fres.panic

\* the only entry of the table for a GD part is the one for C8 40 17
OnlyGD17 ==
    /\ Hits(props, Mid(200, 64, 23)) # {}
    /\ \A n \in 1..Len(props) :
           (props[n].mid % 256 = 200 \/ props[n].type = "GD") =>
               props[n].mid = Mid(200, 64, 23)

\* C24 as stated: with RDID C8 40 18 and C8 40 17 the only GD entry of the
\* table, halSpiFlashInit succeeds with the properties of that entry, the
\* observed ID and a capacity of 16 MiB
C24_FallbackAsStated ==
    (InitDone /\ dev.id = Mid(200, 64, 24) /\ OnlyGD17) =>
        /\ ~fres.panic
        /\ Copied(fd) = Copied(PropGD17)
        /\ fd.mid = Mid(200, 64, 24)
        /\ fd.capacity = 16 * MiB

\* C24: with RDID C8 40 18, no entry for C8 40 18 and an entry whose mid is
\* 0x40C8 in the table, halSpiFlashInit succeeds with the properties of the
\* first such entry, the observed ID and a capacity of 1 << 0x18 = 16 MiB
C24_Fallback ==
    (/\ InitDone
     /\ dev.id = Mid(200, 64, 24)
     /\ Hits(props, Mid(200, 64, 24)) = {}
     /\ Hits(props, Mid(200, 64, 0)) # {}) =>
        /\ ~fres.panic
        /\ Copied(fd) = Copied(props[MinOf(Hits(props, Mid(200, 64, 0)))])
        /\ fd.mid = Mid(200, 64, 24)
        /\ fd.capacity = 16 * MiB

\* C24 witness: the ID C8 40 18 was found through the entry 0x40C8 of a
\* table that has an entry for C8 40 17, whose capacity is 8 MiB
C24_Witness ==
    /\ InitDone
    /\ dev.id = Mid(200, 64, 24)
    /\ props = <<PropGD17, PropGD40, PropGD, PropXmca>>
    /\ fd.sreg_block_size = 512
    /\ fd.capacity = 16 * MiB
    /\ ~fres.panic

ReadBackDone == fres.fn = "halSpiFlashReadSR after WriteSR"

\* C26: halSpiFlashReadSR after halSpiFlashWriteSR(d, sr) returns the bits
\* of sr the device stores: of the low byte when has_sr2 is false, of
\* SR2 << 8 | SR1 otherwise, in each of the three ways of writing
C26_SrRoundTrip ==
    ReadBackDone =>
        fres.ret = BitAnd(IF fd.has_sr2 THEN fres.sr ELSE fres.sr % 256, dev.wmask)

\* C26 witness: every bit was written with 01h and 31h to a device that
\* held another value, and the bits the device stores were read back
C26_Witness ==
    /\ ReadBackDone
    /\ fd.has_sr2 /\ ~fd.write_sr12
    /\ fres.sr = 65535
    /\ fres.ret = SrWritable
    /\ dev.wmask = SrWritable

SregReadProgram ==
    {"halSpiFlashReadSecurityRegister", "halSpiFlashProgramSecurityRegister"}

SregNames ==
    SregReadProgram \cup
        {"halSpiFlashEraseSecurityRegister", "halSpiFlashLockSecurityRegister",
         "halSpiFlashIsSecurityRegisterLocked",
         "halSpiFlashIsSecurityRegisterLocked after Lock"}

\* the call is one the claim has refused: num out of range, address + size
\* (as numbers; a negative size stands for one of 2^31 or more) above the
\* block size for a read or a program, or no security registers: a type
\* outside the two families, or registers of no bytes for an erase
SregRefused ==
    \/ fres.num < fd.sreg_min_num \/ fres.num > fd.sreg_max_num
    \/ /\ fres.fn \in SregReadProgram
       /\ (fres.size < 0 \/ fres.offset + fres.size > fd.sreg_block_size)
    \/ fd.type \notin GDFamily \cup {"XMCB"}
    \/ fres.fn = "halSpiFlashEraseSecurityRegister" /\ fd.sreg_block_size = 0

\* the command of a read, a program or an erase: the opcode of the family
\* and the address (num << 12) | address, with the dummy byte of a read
SregCommand ==
    LET xmcb == fd.type = "XMCB"
        addr == AddrBytes(BitOr(fres.num * 4096, fres.offset))
    IN  IF fres.fn = "halSpiFlashReadSecurityRegister"
        THEN FlashCmd(IF xmcb THEN 104 ELSE 72, addr \o <<0>>)
        ELSE IF fres.fn = "halSpiFlashProgramSecurityRegister"
        THEN FlashCmd(IF xmcb THEN 98 ELSE 66, addr)
        ELSE FlashCmd(IF xmcb THEN 100 ELSE 68, addr)

\* what the claim says of the call that has returned
SregAsStated ==
    IF SregRefused THEN fres.ret = FALSE /\ fres.log = <<>>
    ELSE IF fres.fn \in SregReadProgram \cup {"halSpiFlashEraseSecurityRegister"}
    THEN fres.ret = TRUE /\ fres.log = <<SregCommand>>
    ELSE fres.log # <<>>

\* C27 as stated: the security register functions return false without a
\* command when num is out of range, when address + size is above the block
\* size (read, program) or when the part has no security registers;
\* otherwise they issue their command, 48h/42h/44h or 68h/62h/64h at
\* (num << 12) | address for read, program and erase
C27_SregGateAsStated == fres.fn \in SregNames => SregAsStated

\* the same for the sizes below 2^31
SregGateSmallSizes == (fres.fn \in SregNames /\ fres.size >= 0) => SregAsStated

PrepDone == fres.fn = "halSpiFlashPrepareEraseProgram"

\* the bits of the WP field of descriptor d
WpMaskOf(d) ==
    IF d.wp_type = "XMCA" THEN XMCA_WP_MASK
    ELSE IF d.capacity = 1 * MiB THEN GD_WP8M_MASK
    ELSE IF d.capacity = 2 * MiB THEN GD_WP16M_MASK
    ELSE GD_WP32M_MASK

\* the entry of the table of d whose offset is the end of the window
\* halSpiFlashWpRange reports for the call
PrepEntry ==
    LET T == WpTableOf(fd)
        maxval == halSpiFlashWpRange(fd, fres.offset, fres.size).maxval
    IN  T[CHOOSE i \in 1..Len(T) : T[i].offset * WpUnitOf(fd) = maxval]

\* the commands of the call that write a status register
PrepWrites == {i \in 1..Len(fres.log) : fres.log[i].op \in {1, 49}}

\* C28: with volatile_sr_en and a write-protect table,
\* halSpiFlashPrepareEraseProgram leaves the WP field at the bits of the
\* table entry that ends the window of halSpiFlashWpRange, the offset is
\* not inside that window, and a status register is written only if the
\* register read differs from that value; WREN is the last command, and the
\* only one without volatile_sr_en
C28_PrepareOpens ==
    PrepDone =>
        /\ fres.log # <<>>
        /\ fres.log[Len(fres.log)] = FlashCmd(6, <<>>)
        /\ dev.wel
        /\ ~fd.volatile_sr_en => fres.log = <<FlashCmd(6, <<>>)>> /\ dev.sr = fres.sr
        /\ (fd.volatile_sr_en /\ WpTableOf(fd) # <<>>) =>
               /\ BitAnd(dev.sr, WpMaskOf(fd)) = WpBits[PrepEntry.wp]
               /\ BitClear(dev.sr, WpMaskOf(fd)) = BitClear(fres.sr, WpMaskOf(fd))
               /\ fres.offset >= halSpiFlashWpRange(fd, fres.offset, fres.size).maxval
               /\ PrepWrites # {} =>
                      BitAnd(fres.sr, WpMaskOf(fd)) # WpBits[PrepEntry.wp]
        /\ (fd.volatile_sr_en /\ WpTableOf(fd) = <<>>) => PrepWrites = {} /\ dev.sr = fres.sr

\* C28 witness: on a GD part of 8 MiB with everything protected, a call for
\* the first byte of the upper half has written SR1 and SR2 with 50h before
\* each, twice because of a write that failed, and left the lower half
\* protected
C28_Witness ==
    /\ PrepDone
    /\ fd.volatile_sr_en /\ fd.wp_type = "GD" /\ fd.capacity = 8 * MiB /\ ~fd.write_sr12
    /\ fres.offset = 4 * MiB
    /\ fres.sr = GD_SR_QE + WpBits["GD_WP32M_ALL"]
    /\ dev.sr = GD_SR_QE + WpBits["GD_WP32M_1_2"]
    /\ Cardinality(PrepWrites) = 4

-----------------------------------------------------------------------------
(* Work queue: repeated enqueue, waiting and wakeups *)

\* the last entry of the callback log was written by this step and is a
\* repeated enqueue
AgainStep ==
    /\ Len(evlog') = Len(evlog) + 1
    /\ evlog'[Len(evlog')][1] = "again"

\* C40: osiWorkEnqueue(w, q) while w is on q changes nothing: the order of
\* q.work_list, w.wq and the count of q.work_sema stay as they are, in the
\* calls the client makes and for the critical section applied in any
\* reachable state; items enqueued in the order 1, 2, .. and enqueued again
\* while they wait are run and completed in that order, once each
C40_EnqueueAgain ==
    /\ [][AgainStep => (wq' = wq /\ work' = work)]_vars
    /\ [](\A w \in DOMAIN work, q \in DOMAIN wq :
             work[w].wq = q => EnqueueCS(wq, work, w, q) = [wq |-> wq, work |-> work])
    /\ [](/\ IsPrefix(Callbacks(evlog), ExpectedLog)
          /\ ( /\ \A w \in DOMAIN work : Enqueued(w)
               /\ wth["q1"].pc = "wait"
               /\ wq["q1"].work_list = <<>> ) => Callbacks(evlog) = ExpectedLog)

\* C40 witness: item 2 was enqueued again twice while item 1 ran, the second
\* time with item 3 behind it, and every item has run once, in order
C40_Witness ==
    /\ Callbacks(evlog) = ExpectedLog
    /\ SubSeq(evlog, 1, 3) = << <<"run", 1>>, <<"again", 2>>, <<"again", 2>> >>
    /\ wth["q1"].pc = "wait"

-----------------------------------------------------------------------------
(* Flash: the status check of the GD family *)

\* the positions of the commands of a log whose opcode is in ops
CmdsOf(log, ops) == {k \in 1..Len(log) : log[k].op \in ops}

\* reset-enable and reset (66h, 99h); the status writes (01h, 31h)
ResetOps == {102, 153}
WriteSrOps == {1, 49}

\* what halSpiFlashReadSR shows of the status registers sr
CheckRead(sr) == IF fd.has_sr2 THEN sr ELSE sr % 256

\* the bits that ask for a reset
CheckResetMask ==
    STREG_WEL + STREG_WIP + (IF fd.has_sus1 THEN GD_SR_SUS1 ELSE 0)
                          + (IF fd.has_sus2 THEN GD_SR_SUS2 ELSE 0)

\* the first call has read a bit that asks for a reset
CheckWantsReset == BitAnd(CheckRead(fres.sr), CheckResetMask) # 0

\* the value the first call goes on with: the value read, or after a reset
\* the value read again, without WEL, WIP and the suspend flags
CheckSr ==
    IF CheckWantsReset
    THEN CheckRead(BitClear(fres.sr, STREG_WEL + STREG_WIP + GD_SR_SUS1 + GD_SR_SUS2))
    ELSE CheckRead(fres.sr)

\* QE, and with GD write protection the whole array protected
CheckNeeded ==
    IF fd.wp_type = "GD"
    THEN BitOr(BitClear(BitOr(CheckSr, GD_SR_QE), WpMaskOf(fd)), WpBits["GD_WP32M_ALL"])
    ELSE BitOr(CheckSr, GD_SR_QE)

CheckDone == fres.fn \in {"halSpiFlashStatusCheck", "halSpiFlashStatusCheck twice"}

\* C32: the status check of the GD family issues reset-enable and reset,
\* once and in this order, exactly when the status it read has WEL, WIP or
\* an enabled SUS bit; the value it needs has QE and, with wp_type GD, the
\* protect-all bits; it writes the status register exactly when that value
\* differs from the value read, and the device then holds it in the bits it
\* stores; a second call on a device that holds the value issues no reset
\* and no status write
C32_StatusCheckGD ==
    CheckDone =>
        /\ IF CheckWantsReset
           THEN \E k \in 1..(Len(fres.log) - 1) :
                    /\ fres.log[k].op = 102 /\ fres.log[k + 1].op = 153
                    /\ CmdsOf(fres.log, ResetOps) = {k, k + 1}
           ELSE CmdsOf(fres.log, ResetOps) = {}
        /\ BitAnd(CheckNeeded, GD_SR_QE) = GD_SR_QE
        /\ fd.wp_type = "GD" =>
               BitAnd(CheckNeeded, WpMaskOf(fd)) = prvStatusWpAllGD(fd, 0)
        /\ (CmdsOf(fres.log, WriteSrOps) # {}) <=> (CheckNeeded # CheckSr)
        /\ (fres.fn = "halSpiFlashStatusCheck" /\ fd.has_sr2) =>
               BitAnd(DevSR(dev), dev.wmask) = BitAnd(CheckNeeded, dev.wmask)
        /\ (fres.fn = "halSpiFlashStatusCheck twice" /\ CheckRead(fres.num) = CheckNeeded) =>
               /\ CmdsOf(fres.log2, ResetOps) = {}
               /\ CmdsOf(fres.log2, WriteSrOps) = {}
               /\ DevSR(dev) = fres.num

\* C32 witness: the first call found WEL, reset the device and wrote QE with
\* everything protected; the second call only read the status registers
C32_Witness ==
    /\ fres.fn = "halSpiFlashStatusCheck twice"
    /\ BitAnd(fres.sr, STREG_WEL) # 0
    /\ CmdsOf(fres.log, ResetOps) # {}
    /\ CmdsOf(fres.log, WriteSrOps) # {}
    /\ fd.wp_type = "GD"
    /\ fres.num = GD_SR_QE + WpBits["GD_WP32M_ALL"]
    /\ Len(fres.log2) = 2
    /\ DevSR(dev) = fres.num

-----------------------------------------------------------------------------
(* Pipe: the counters wrap *)

\* C38: with rd and wr unsigned counters of CounterBits bits, the bytes
\* buffered, (wr - rd) modulo 2^CounterBits, are never more than the size of
\* the pipe, and the bytes read are the bytes written, in order, also after
\* wr and rd have wrapped, for a size that divides 2^CounterBits and for one
\* that does not
C38_WrapAsStated ==
    /\ Uint(pipe.wr - pipe.rd) <= pipe.size
    /\ IsPrefix(rdlog, wrlog)

\* the same for the sizes that divide 2^CounterBits
WrapPowerOfTwo == (CounterMod % pipe.size = 0) => C38_WrapAsStated

\* the counters have wrapped and bytes written before and after the wrap
\* have been read
WrapHappened ==
    /\ pipe.wr < MaxStream
    /\ pipe.rd < MaxStream
    /\ Len(rdlog) >= 2

\* C35: osiWorkWaitFinish has returned true for the last item, which was
\* enqueued and neither cancelled nor deleted, only if the worker has
\* returned from the run callback and the complete callback of the item
C35_WaitFinishedAsStated ==
    wtr.ret = "true" =>
        \E k \in 1..Len(evlog) : evlog[k] = <<"complete", NItems>>

\* C36: a thread blocked without timeout in osiWorkWaitFinish eventually
\* returns true once its item is off the queue (taken by the worker or
\* removed by osiWorkCancel), whether or not another item is enqueued
C36_WaitersWakeAsStated ==
    (wtr.pc = "wf_wait" /\ wtr.tmo = "forever" /\ work[wtr.work].wq = NULL)
        ~> (wtr.pc = "idle" /\ wtr.ret = "true")

\* C37: on a queue that is never deleted, an item that is on the queue is
\* eventually taken and run by the worker, whatever the interleaving of the
\* enqueues with the worker's test of the list and its acquire of work_sema
C37_NoLostWakeup ==
    \A w \in 1..2 :
        (work[w].wq = "q1") ~> (wth["q1"].pc = "run" /\ wth["q1"].work = w)

\* C37 witness: the worker found the list empty and has not yet acquired
\* work_sema; two items were enqueued since, and the count is 1
C37_Witness ==
    /\ wth["q1"].pc = "wait"
    /\ Len(wq["q1"].work_list) = 2
    /\ wq["q1"].work_sema = 1

-----------------------------------------------------------------------------
(* Notification: delivery of a trigger *)

\* C39: once osiNotifyTrigger has returned, a notification that is neither
\* cancelled nor deleted is never left QueuedActive without a Notify event
\* in flight, whatever osiEventSend returned: the target thread, as long as
\* it keeps receiving events, reaches the callback
C39_TriggerDeliveredAsStated ==
    (notify.alive /\ notify.status = "QueuedActive" /\ trg.pc = "idle" /\ ~panic)
        => InFlight = 1

\* C34: whatever the interleaving of osiNotifyDelete on another thread with
\* the dispatch of the Notify event, the dispatcher reads notify->ctx and
\* invokes the callback only while the notification is allocated
C34_NoCallbackAfterDeleteAsStated ==
    [][ncb' # ncb => notify.alive]_vars

-----------------------------------------------------------------------------
(* Event queue: the Quit event *)

\* the Quit event of a waiting sender is in the event queue, or taken from
\* it and not yet processed by the dispatcher
QuitInFlight ==
    \/ \E k \in 1..Len(mbox) : mbox[k].id = "Quit" /\ mbox[k].param1 # 0
    \/ dsp.pc = "got" /\ dsp.ev.id = "Quit" /\ dsp.ev.param1 # 0

\* C31: osiSendQuitEvent(thread, TRUE) from another thread eventually
\* returns when the target thread keeps receiving events, whatever the
\* occupancy of the event queue at the send: a sender waiting for the
\* acknowledgement has its semaphore released, or its Quit event on the way
\* to the dispatcher that will release it
C31_QuitReturnsAsStated ==
    \A t \in NPosters :
        pst[t].pc = "ack_wait" => (pst[t].sema > 0 \/ QuitInFlight)

=============================================================================
